---- MODULE Spec2Model ----
(***************************************************************************)
(* A model of the Firestore Grafana datasource backend                     *)
(* (pkg/plugin/datasource.go): the query router, the SQL-subset parser,    *)
(* the delegated (FireQL) path, the native Firestore path with manual      *)
(* filtering and in-memory GROUP BY, the QueryData loop with its recovery  *)
(* boundary, the query-rewriting functions and CheckHealth.                *)
(*                                                                         *)
(* Strings are TLA+ strings (sequences of characters); indices follow Go   *)
(* and are 0-based, -1 meaning "not found".  A Go slice expression s[a:b]  *)
(* whose bounds are out of range is a runtime panic, which the model       *)
(* carries as an explicit outcome.                                         *)
(***************************************************************************)
EXTENDS Integers, Sequences, FiniteSets, TLC

(***************************************************************************)
(* Go's strings package, as far as the plugin uses it.                     *)
(***************************************************************************)

MinOf(S) == CHOOSE x \in S : \A y \in S : x <= y

\* s[i] as a one-character string, i 0-based.
CharAt(s, i) == SubSeq(s, i + 1, i + 1)

\* s[a:b]; only meaningful when SliceOK(s, a, b).
Slice(s, a, b) == SubSeq(s, a + 1, b)

\* The bounds check Go performs on s[a:b]; a failing check panics.
SliceOK(s, a, b) == 0 <= a /\ a <= b /\ b <= Len(s)

\* strings.Index
IndexOfHits(hits) == IF hits = {} THEN -1 ELSE MinOf(hits)

\* strings.Index
Index(s, sub) ==
    IndexOfHits({i \in 0..(Len(s) - Len(sub)) : SubSeq(s, i + 1, i + Len(sub)) = sub})

\* strings.Contains
Contains(s, sub) == Index(s, sub) # -1

\* strings.HasPrefix
HasPrefix(s, p) == Len(s) >= Len(p) /\ SubSeq(s, 1, Len(p)) = p

LowerChar(c) ==
    CASE c = "A" -> "a" [] c = "B" -> "b" [] c = "C" -> "c" [] c = "D" -> "d"
      [] c = "E" -> "e" [] c = "F" -> "f" [] c = "G" -> "g" [] c = "H" -> "h"
      [] c = "I" -> "i" [] c = "J" -> "j" [] c = "K" -> "k" [] c = "L" -> "l"
      [] c = "M" -> "m" [] c = "N" -> "n" [] c = "O" -> "o" [] c = "P" -> "p"
      [] c = "Q" -> "q" [] c = "R" -> "r" [] c = "S" -> "s" [] c = "T" -> "t"
      [] c = "U" -> "u" [] c = "V" -> "v" [] c = "W" -> "w" [] c = "X" -> "x"
      [] c = "Y" -> "y" [] c = "Z" -> "z" [] OTHER -> c

UpperChar(c) ==
    CASE c = "a" -> "A" [] c = "b" -> "B" [] c = "c" -> "C" [] c = "d" -> "D"
      [] c = "e" -> "E" [] c = "f" -> "F" [] c = "g" -> "G" [] c = "h" -> "H"
      [] c = "i" -> "I" [] c = "j" -> "J" [] c = "k" -> "K" [] c = "l" -> "L"
      [] c = "m" -> "M" [] c = "n" -> "N" [] c = "o" -> "O" [] c = "p" -> "P"
      [] c = "q" -> "Q" [] c = "r" -> "R" [] c = "s" -> "S" [] c = "t" -> "T"
      [] c = "u" -> "U" [] c = "v" -> "V" [] c = "w" -> "W" [] c = "x" -> "X"
      [] c = "y" -> "Y" [] c = "z" -> "Z" [] OTHER -> c

RECURSIVE ToLower(_)
\* strings.ToLower (ASCII)
ToLower(s) == IF s = "" THEN "" ELSE LowerChar(Head(s)) \o ToLower(Tail(s))

RECURSIVE ToUpper(_)
\* strings.ToUpper (ASCII)
ToUpper(s) == IF s = "" THEN "" ELSE UpperChar(Head(s)) \o ToUpper(Tail(s))

\* unicode.IsSpace on the ASCII range
IsSpace(c) == c \in {" ", "\t", "\n", "\r", "\f"}

RECURSIVE TrimLeftSpace(_)
TrimLeftSpace(s) ==
    IF s # "" /\ IsSpace(Head(s)) THEN TrimLeftSpace(Tail(s)) ELSE s

RECURSIVE TrimRightSpace(_)
TrimRightSpace(s) ==
    IF s # "" /\ IsSpace(CharAt(s, Len(s) - 1))
    THEN TrimRightSpace(SubSeq(s, 1, Len(s) - 1))
    ELSE s

\* strings.TrimSpace
TrimSpace(s) == TrimRightSpace(TrimLeftSpace(s))

RECURSIVE TrimLeftSet(_, _)
TrimLeftSet(s, cut) ==
    IF s # "" /\ Head(s) \in cut THEN TrimLeftSet(Tail(s), cut) ELSE s

RECURSIVE TrimRightSet(_, _)
TrimRightSet(s, cut) ==
    IF s # "" /\ CharAt(s, Len(s) - 1) \in cut
    THEN TrimRightSet(SubSeq(s, 1, Len(s) - 1), cut)
    ELSE s

\* strings.Trim(s, cutset), the cutset given as a set of characters
Trim(s, cut) == TrimRightSet(TrimLeftSet(s, cut), cut)

RECURSIVE Split(_, _)
\* The split of s at the first occurrence i of sep, the rest split in turn.
SplitAt(s, sep, i) ==
    IF i = -1 THEN <<s>>
    ELSE <<Slice(s, 0, i)>> \o Split(Slice(s, i + Len(sep), Len(s)), sep)

\* strings.Split(s, sep) for a non-empty sep
Split(s, sep) == SplitAt(s, sep, Index(s, sep))

SplitN2At(s, sep, i) ==
    IF i = -1 THEN <<s>>
    ELSE <<Slice(s, 0, i), Slice(s, i + Len(sep), Len(s))>>

\* strings.SplitN(s, sep, 2)
SplitN2(s, sep) == SplitN2At(s, sep, Index(s, sep))

RECURSIVE FieldsFrom(_, _)
\* the tokens of s, token being the one under construction
FieldsFrom(s, token) ==
    IF s = "" THEN (IF token = "" THEN <<>> ELSE <<token>>)
    ELSE IF IsSpace(Head(s))
         THEN (IF token = "" THEN <<>> ELSE <<token>>) \o FieldsFrom(Tail(s), "")
         ELSE FieldsFrom(Tail(s), token \o Head(s))

\* strings.Fields
Fields(s) == FieldsFrom(s, "")

IsDigit(c) == c \in {"0", "1", "2", "3", "4", "5", "6", "7", "8", "9"}

DigitVal(c) ==
    CASE c = "0" -> 0 [] c = "1" -> 1 [] c = "2" -> 2 [] c = "3" -> 3
      [] c = "4" -> 4 [] c = "5" -> 5 [] c = "6" -> 6 [] c = "7" -> 7
      [] c = "8" -> 8 [] c = "9" -> 9 [] OTHER -> 0

RECURSIVE DigitsVal(_, _)
DigitsVal(s, acc) ==
    IF s = "" THEN acc ELSE DigitsVal(Tail(s), 10 * acc + DigitVal(Head(s)))

AllDigits(s) == s # "" /\ \A i \in 0..(Len(s) - 1) : IsDigit(CharAt(s, i))

AtoiBody(negative, body) ==
    IF AllDigits(body)
    THEN [ok |-> TRUE,
          val |-> IF negative THEN 0 - DigitsVal(body, 0) ELSE DigitsVal(body, 0)]
    ELSE [ok |-> FALSE, val |-> 0]

AtoiSigned(s, signed) ==
    AtoiBody(signed /\ Head(s) = "-", IF signed THEN Tail(s) ELSE s)

\* strconv.Atoi: [ok, val]; an optional sign followed by decimal digits
Atoi(s) == AtoiSigned(s, s # "" /\ Head(s) \in {"+", "-"})

(***************************************************************************)
(* The SQL-subset parser.                                                  *)
(***************************************************************************)

\* The QueryInfo that parseSQLQueryWithVariables starts from.
EmptyInfo ==
    [Collection |-> "", Fields |-> <<>>, TimeField |-> "",
     AdditionalFilters |-> <<>>, OrderField |-> "", OrderDirection |-> "",
     Limit |-> 0, GroupByFields |-> <<>>, AggregateFields |-> <<>>]

\* The back-tick character (the parser of TLA+ reads a back-tick inside a
\* string only as the opening of a quoted pair, so it is taken from one).
Backtick == Head("`'")

\* cleanBackticks
cleanBackticks(field) == Trim(TrimSpace(field), {Backtick})

\* The test that classifies a SELECT field as an aggregate.
IsAggregateField(upperField) ==
    \/ Contains(upperField, "COUNT(") \/ Contains(upperField, "SUM(")
    \/ Contains(upperField, "AVG(") \/ Contains(upperField, "MIN(")
    \/ Contains(upperField, "MAX(")

\* The function name of an aggregate field: the prefix chain of the code.
AggregateFuncName(upperField) ==
    IF HasPrefix(upperField, "COUNT(") THEN "COUNT"
    ELSE IF HasPrefix(upperField, "SUM(") THEN "SUM"
    ELSE IF HasPrefix(upperField, "AVG(") THEN "AVG"
    ELSE IF HasPrefix(upperField, "MIN(") THEN "MIN"
    ELSE IF HasPrefix(upperField, "MAX(") THEN "MAX"
    ELSE ""

\* The AggregateInfo from the function name and the positions of "(", ")"
\* and " AS " in the field.
AggregateAt(field, funcName, start, end, asPos) ==
    [Function |-> funcName,
     Field |-> IF start # -1 /\ end # -1 /\ end > start
               THEN TrimSpace(Slice(field, start + 1, end)) ELSE "",
     Alias |-> IF asPos # -1
               THEN TrimSpace(Slice(field, asPos + 4, Len(field)))
               ELSE field]

\* The AggregateInfo built for one (trimmed) aggregate field.
AggregateOf(field) ==
    AggregateAt(field, AggregateFuncName(ToUpper(field)), Index(field, "("),
                Index(field, ")"), Index(ToUpper(field), " AS "))

\* parseAggregateFields appending only the wildcard to info.Fields.
RegularFieldUnlisted(field) == IF field = "*" THEN <<"*">> ELSE <<>>

\* What one (trimmed) entry of the SELECT list adds to info.Fields.
RegularField(field) ==
    IF field = "*" THEN <<"*">>
    ELSE IF IsAggregateField(ToUpper(field)) THEN <<>>
    ELSE <<cleanBackticks(field)>>

RECURSIVE RegularFieldsOf(_)
\* info.Fields: the non-aggregate entries of the split SELECT list, in order
RegularFieldsOf(fields) ==
    IF fields = <<>> THEN <<>>
    ELSE RegularField(TrimSpace(Head(fields))) \o RegularFieldsOf(Tail(fields))

\* What one (trimmed) entry of the SELECT list adds to info.AggregateFields.
AggregateField(field) ==
    IF field # "*" /\ IsAggregateField(ToUpper(field))
    THEN <<AggregateOf(field)>> ELSE <<>>

RECURSIVE AggregateFieldsOf(_)
\* info.AggregateFields: the aggregate entries of the split SELECT list, in order
AggregateFieldsOf(fields) ==
    IF fields = <<>> THEN <<>>
    ELSE AggregateField(TrimSpace(Head(fields))) \o AggregateFieldsOf(Tail(fields))

ParsedFields(fields, info) ==
    [info EXCEPT !.Fields = RegularFieldsOf(fields),
                 !.AggregateFields = AggregateFieldsOf(fields)]

\* parseAggregateFields: the info with Fields and AggregateFields set
parseAggregateFields(fieldsStr, info) == ParsedFields(Split(fieldsStr, ","), info)

HasTimeVar(s) == Contains(s, "$__from") \/ Contains(s, "$__to")

\* The positions of the relational operator tokens that a time variable
\* token follows.
TimeFieldHits(parts) ==
    {i \in 2..Len(parts) :
        /\ parts[i] \in {">=", "<=", ">", "<"}
        /\ i + 1 <= Len(parts)
        /\ HasTimeVar(parts[i + 1])}

TimeFieldAt(parts, hits, old) ==
    IF hits # {} THEN parts[MinOf(hits) - 1] ELSE old

\* The time field named by a WHERE clause: the token before the first
\* relational operator token that is followed by a $__from/$__to token.
TimeFieldOf(whereClause, old) ==
    IF HasTimeVar(whereClause)
    THEN TimeFieldAt(Fields(whereClause), TimeFieldHits(Fields(whereClause)), old)
    ELSE old

\* The separator a condition is split at: "==" before "=", the spaced form
\* before the bare one.
FilterSep(condition) ==
    IF Contains(condition, "==")
    THEN (IF Contains(condition, " == ") THEN " == " ELSE "==")
    ELSE (IF Contains(condition, " = ") THEN " = " ELSE "=")

FilterFromParts(parts) ==
    IF Len(parts) = 2
    THEN <<[Field |-> TrimSpace(parts[1]),
            Operator |-> "==",
            Value |-> Trim(TrimSpace(parts[2]), {"'", "\""})]>>
    ELSE <<>>

FilterOfCondition(condition) ==
    IF HasTimeVar(condition) THEN <<>>
    ELSE IF Contains(condition, "=")
         THEN FilterFromParts(SplitN2(condition, FilterSep(condition)))
         ELSE <<>>

\* The filter one WHERE condition yields (a sequence of zero or one FilterInfo).
FilterOf(rawCondition) == FilterOfCondition(TrimSpace(rawCondition))

RECURSIVE FiltersOf(_)
FiltersOf(conditions) ==
    IF conditions = <<>> THEN <<>>
    ELSE FilterOf(Head(conditions)) \o FiltersOf(Tail(conditions))

\* parseWhereClause
parseWhereClause(whereClause, info) ==
    [info EXCEPT !.TimeField = TimeFieldOf(whereClause, info.TimeField),
                 !.AdditionalFilters =
                     info.AdditionalFilters
                         \o FiltersOf(Split(whereClause, " AND "))]

RECURSIVE GroupFieldsOf(_)
GroupFieldsOf(fields) ==
    IF fields = <<>> THEN <<>>
    ELSE (IF TrimSpace(Head(fields)) # ""
          THEN <<cleanBackticks(TrimSpace(Head(fields)))>> ELSE <<>>)
         \o GroupFieldsOf(Tail(fields))

\* parseGroupBy
parseGroupBy(groupClause, info) ==
    [info EXCEPT !.GroupByFields =
                     info.GroupByFields \o GroupFieldsOf(Split(groupClause, ","))]

OrderByParts(parts, info) ==
    IF Len(parts) >= 1
    THEN [info EXCEPT !.OrderField = parts[1],
                      !.OrderDirection =
                          IF Len(parts) >= 2 /\ ToUpper(parts[2]) = "DESC"
                          THEN "DESC" ELSE "ASC"]
    ELSE info

\* parseOrderBy
parseOrderBy(orderClause, info) == OrderByParts(Fields(orderClause), info)

LimitOfParts(parts) ==
    IF Len(parts) >= 1 THEN Atoi(parts[1]) ELSE [ok |-> FALSE, val |-> 0]

\* parseLimit: [ok, val]
parseLimit(limitStr) == LimitOfParts(Fields(limitStr))

RECURSIVE FirstPatternIndex(_, _)
\* i if the head pattern was found at i, else the search through the rest.
FirstFound(s, patterns, i) ==
    IF i # -1 THEN i ELSE FirstPatternIndex(s, Tail(patterns))

\* The index of the first pattern of the list that occurs in s, else -1.
FirstPatternIndex(s, patterns) ==
    IF patterns = <<>> THEN -1
    ELSE FirstFound(s, patterns, Index(s, Head(patterns)))

\* findGroupByIndex
findGroupByIndex(queryLower) ==
    FirstPatternIndex(queryLower,
        <<" group by ", "\ngroup by ", "\n  group by ", "\n\tgroup by ",
          "\r\ngroup by ", "\r\n  group by ">>)

\* findLimitIndex
findLimitIndex(queryLower) ==
    FirstPatternIndex(queryLower,
        <<" limit ", "\nlimit ", "\n  limit ", "\n\tlimit ",
          "\r\nlimit ", "\r\n  limit ">>)

\* The three outcomes of a call of the parser.
ParsePlan(info) == [kind |-> "plan", err |-> "", info |-> info]
ParseError(msg) == [kind |-> "error", err |-> msg, info |-> EmptyInfo]
ParsePanic == [kind |-> "panic", err |-> "slice bounds out of range", info |-> EmptyInfo]

\* endIdx after "if idx != -1 && idx < endIdx { endIdx = idx }"
LoweredTo(idx, endIdx) == IF idx # -1 /\ idx < endIdx THEN idx ELSE endIdx

\* whereEndIdx after "if idx != -1 && idx > whereIdx { whereEndIdx = idx }"
MovedTo(idx, whereIdx, whereEndIdx) ==
    IF idx # -1 /\ idx > whereIdx THEN idx ELSE whereEndIdx

\* The end of the FROM clause: the query's end, lowered to each clause index
\* that lies before it.
CollectionEndIdx(queryOriginal, whereIdx, groupIdx, orderIdx, limitIdx) ==
    LoweredTo(limitIdx, LoweredTo(orderIdx, LoweredTo(groupIdx,
        IF whereIdx # -1 THEN whereIdx ELSE Len(queryOriginal))))

\* The end of the WHERE clause: three successive assignments, the last
\* clause index found after WHERE winning.
WhereEndIdx(queryOriginal, whereIdx, groupIdx, orderIdx, limitIdx) ==
    MovedTo(limitIdx, whereIdx, MovedTo(orderIdx, whereIdx,
        MovedTo(groupIdx, whereIdx, Len(queryOriginal))))

\* The end of the GROUP BY clause: ORDER BY if it follows, else LIMIT if it
\* follows, else the query's end.
GroupEndIdx(queryOriginal, groupIdx, orderIdx, limitIdx) ==
    IF orderIdx # -1 /\ orderIdx > groupIdx THEN orderIdx
    ELSE IF limitIdx # -1 /\ limitIdx > groupIdx THEN limitIdx
    ELSE Len(queryOriginal)

\* The end of the ORDER BY clause.
OrderEndIdx(queryOriginal, orderIdx, limitIdx) ==
    IF limitIdx # -1 /\ limitIdx > orderIdx THEN limitIdx
    ELSE Len(queryOriginal)

\* The clause parsers applied in the order of the code, each to its slice.
WithCollection(queryOriginal, fromIdx, endIdx, info) ==
    [info EXCEPT !.Collection = TrimSpace(Slice(queryOriginal, fromIdx + 6, endIdx))]

WithWhere(queryOriginal, whereIdx, whereEndIdx, info) ==
    IF whereIdx # -1
    THEN parseWhereClause(TrimSpace(Slice(queryOriginal, whereIdx + 7, whereEndIdx)), info)
    ELSE info

WithGroupBy(queryOriginal, groupIdx, groupEndIdx, info) ==
    IF groupIdx # -1
    THEN parseGroupBy(TrimSpace(Slice(queryOriginal, groupIdx + 10, groupEndIdx)), info)
    ELSE info

WithOrderBy(queryOriginal, orderIdx, orderEndIdx, info) ==
    IF orderIdx # -1
    THEN parseOrderBy(TrimSpace(Slice(queryOriginal, orderIdx + 10, orderEndIdx)), info)
    ELSE info

LimitSet(lim, info) == IF lim.ok THEN [info EXCEPT !.Limit = lim.val] ELSE info

WithLimit(queryOriginal, limitIdx, info) ==
    IF limitIdx # -1
    THEN LimitSet(parseLimit(TrimSpace(Slice(queryOriginal, limitIdx + 7,
                                             Len(queryOriginal)))), info)
    ELSE info

\* Whether every slice expression the parser evaluates is within bounds.
SlicesOK(queryOriginal, selectIdx, fromIdx, whereIdx, groupIdx, orderIdx, limitIdx) ==
    /\ SliceOK(queryOriginal, selectIdx + 7, fromIdx)
    /\ SliceOK(queryOriginal, fromIdx + 6,
               CollectionEndIdx(queryOriginal, whereIdx, groupIdx, orderIdx, limitIdx))
    /\ whereIdx = -1 \/
           SliceOK(queryOriginal, whereIdx + 7,
                   WhereEndIdx(queryOriginal, whereIdx, groupIdx, orderIdx, limitIdx))
    /\ groupIdx = -1 \/
           SliceOK(queryOriginal, groupIdx + 10,
                   GroupEndIdx(queryOriginal, groupIdx, orderIdx, limitIdx))
    /\ orderIdx = -1 \/
           SliceOK(queryOriginal, orderIdx + 10,
                   OrderEndIdx(queryOriginal, orderIdx, limitIdx))
    /\ limitIdx = -1 \/ SliceOK(queryOriginal, limitIdx + 7, Len(queryOriginal))

\* The plan, given the clause indices.
PlanAt(queryOriginal, selectIdx, fromIdx, whereIdx, groupIdx, orderIdx, limitIdx) ==
    WithLimit(queryOriginal, limitIdx,
      WithOrderBy(queryOriginal, orderIdx,
                  OrderEndIdx(queryOriginal, orderIdx, limitIdx),
        WithGroupBy(queryOriginal, groupIdx,
                    GroupEndIdx(queryOriginal, groupIdx, orderIdx, limitIdx),
          WithWhere(queryOriginal, whereIdx,
                    WhereEndIdx(queryOriginal, whereIdx, groupIdx, orderIdx, limitIdx),
            WithCollection(queryOriginal, fromIdx,
                    CollectionEndIdx(queryOriginal, whereIdx, groupIdx, orderIdx, limitIdx),
              parseAggregateFields(
                  TrimSpace(Slice(queryOriginal, selectIdx + 7, fromIdx)), EmptyInfo))))))

ParseAt(queryOriginal, selectIdx, fromIdx, whereIdx, groupIdx, orderIdx, limitIdx) ==
    IF selectIdx = -1 \/ fromIdx = -1
    THEN ParseError("invalid SQL: missing SELECT or FROM")
    ELSE IF SlicesOK(queryOriginal, selectIdx, fromIdx, whereIdx, groupIdx,
                     orderIdx, limitIdx)
         THEN ParsePlan(PlanAt(queryOriginal, selectIdx, fromIdx, whereIdx, groupIdx,
                               orderIdx, limitIdx))
         ELSE ParsePanic

ParseLowered(queryOriginal, queryLower) ==
    ParseAt(queryOriginal, Index(queryLower, "select "), Index(queryLower, " from "),
            Index(queryLower, " where "), findGroupByIndex(queryLower),
            Index(queryLower, " order by "), findLimitIndex(queryLower))

\* parseSQLQueryWithVariables: a plan, the error "missing SELECT or FROM",
\* or a panic of one of its slice expressions.
parseSQLQueryWithVariables(query) ==
    ParseLowered(TrimSpace(query), ToLower(TrimSpace(query)))

(***************************************************************************)
(* Dynamically typed values (Go interface{} values): a tag t naming the Go *)
(* type, the number n/d for numeric, boolean (n = 1 for true) and time     *)
(* values, the text s of a string, the mapping m of a nested document.     *)
(***************************************************************************)

NoMap == [k \in {} |-> 0]

Nil == [t |-> "nil", n |-> 0, d |-> 1, s |-> "", m |-> NoMap]
BoolVal(b) == [t |-> "bool", n |-> IF b THEN 1 ELSE 0, d |-> 1, s |-> "", m |-> NoMap]
IntVal(n) == [t |-> "int", n |-> n, d |-> 1, s |-> "", m |-> NoMap]
Int64Val(n) == [t |-> "int64", n |-> n, d |-> 1, s |-> "", m |-> NoMap]
FloatVal(n, d) == [t |-> "float64", n |-> n, d |-> d, s |-> "", m |-> NoMap]
StrVal(s) == [t |-> "string", n |-> 0, d |-> 1, s |-> s, m |-> NoMap]
TimeVal(n) == [t |-> "time", n |-> n, d |-> 1, s |-> "", m |-> NoMap]
MapVal(m) == [t |-> "map", n |-> 0, d |-> 1, s |-> "", m |-> m]

\* doc[key] of a Go map: the value, or nil when the key is absent.
MapGet(doc, key) == IF key \in DOMAIN doc THEN doc[key] ELSE Nil

\* The keys of a mapping in increasing order, as Go prints a map; the model's
\* documents draw their keys from this list.
KeyOrder == <<"a", "amt", "b", "brand", "c", "client", "email", "id", "status", "t">>

RECURSIVE RenderMapFrom(_, _, _)
RECURSIVE Render(_)
\* fmt.Sprintf("%v", v)
Render(v) ==
    CASE v.t = "nil" -> "<nil>"
      [] v.t = "bool" -> (IF v.n = 1 THEN "true" ELSE "false")
      [] v.t \in {"int", "int32", "int64"} -> ToString(v.n)
      [] v.t = "float64" ->
            (IF v.d = 1 THEN ToString(v.n)
             ELSE ToString(v.n \div v.d) \o "." \o ToString(((10 * v.n) \div v.d) % 10))
      [] v.t = "time" -> "2006-01-02 15:04:" \o ToString(v.n) \o " +0000 UTC"
      [] v.t = "map" -> "map[" \o RenderMapFrom(v.m, 1, TRUE) \o "]"
      [] OTHER -> v.s

\* The entries key:value of a mapping from position i of KeyOrder on.
RenderMapFrom(m, i, first) ==
    IF i > Len(KeyOrder) THEN ""
    ELSE IF KeyOrder[i] \in DOMAIN m
         THEN (IF first THEN "" ELSE " ") \o KeyOrder[i] \o ":" \o Render(m[KeyOrder[i]])
              \o RenderMapFrom(m, i + 1, FALSE)
         ELSE RenderMapFrom(m, i + 1, first)

(***************************************************************************)
(* Responses: backend.DataResponse with its frames (data.Frame), a field   *)
(* (column) being a name, the Go type of its vector and the vector.        *)
(***************************************************************************)

Field(name, type, values) == [Name |-> name, Type |-> type, Values |-> values]
Frame(fields) == [Name |-> "response", Fields |-> fields]

\* backend.ErrDataResponse(status, message)
ErrDataResponse(status, message) ==
    [Status |-> status, Error |-> message, Frames |-> <<>>]

\* A DataResponse without error holding the given frames.
DataResponse(frames) == [Status |-> "OK", Error |-> "", Frames |-> frames]

\* The response the recovery boundary of query() substitutes for a panic.
RecoveredResponse == ErrDataResponse("Internal", "internal server error")

\* The outcome of a computation that may panic.
Done(response) == [panic |-> FALSE, response |-> response]
Panicked == [panic |-> TRUE, response |-> DataResponse(<<>>)]

(***************************************************************************)
(* The delegated path: the result of fireql's Execute turned into a frame  *)
(* (queryInternal, after the call).                                        *)
(***************************************************************************)

\* The hard cap on the records of a delegated result.
MaxRecords == 10000

\* A result of the library: the column names and the row-major records; a
\* record is nil or a sequence of cells.
LibResult(columns, records) == [Columns |-> columns, Records |-> records]
Row(cells) == [isNil |-> FALSE, cells |-> cells]
NilRow == [isNil |-> TRUE, cells |-> <<>>]

\* result.Records = result.Records[:10000] when there are more
TruncateRecords(records) ==
    IF Len(records) > MaxRecords THEN SubSeq(records, 1, MaxRecords) ELSE records

\* int32(v) of a Go int: the low 32 bits, two's complement.  Every integer
\* of the model lies in -2^31 .. 2^31 - 1, where the low 32 bits are the value.
ToInt32(n) == n

\* The Go slice type the type switch gives a column for a cell of this type.
VectorType(v) ==
    CASE v.t = "bool" -> "[]bool"
      [] v.t \in {"int", "int32"} -> "[]int32"
      [] v.t = "int64" -> "[]int64"
      [] v.t = "float64" -> "[]float64"
      [] v.t = "time" -> "[]time.Time"
      [] v.t = "map" -> "[]json.RawMessage"
      [] OTHER -> "[]string"

\* The element appended to the column's vector for a cell.
VectorElem(v) ==
    CASE v.t = "int" -> [v EXCEPT !.t = "int32", !.n = ToInt32(v.n)]
      [] VectorType(v) = "[]string" -> StrVal(Render(v))
      [] OTHER -> v

CellsAt(rows, idx) == [i \in 1..Len(rows) |-> rows[i].cells[idx]]

\* The cells a column collects: those of the records that are not nil and
\* long enough, the nil cells skipped.
ColumnCells(records, idx) ==
    CellsAt(SelectSeq(records,
                LAMBDA r : /\ ~r.isNil
                           /\ idx <= Len(r.cells)
                           /\ r.cells[idx].t # "nil"),
            idx)

VectorOfCells(records, cells) ==
    IF Len(records) = 0
    THEN [panic |-> FALSE, type |-> "[]string", values |-> <<>>]
    ELSE IF \E i \in 1..Len(cells) : VectorType(cells[i]) # VectorType(cells[1])
         THEN [panic |-> TRUE, type |-> "", values |-> <<>>]
         ELSE [panic |-> FALSE,
               type |-> IF Len(cells) = 0 THEN "nil" ELSE VectorType(cells[1]),
               values |-> [i \in 1..Len(cells) |-> VectorElem(cells[i])]]

\* The vector of column idx: its type and values, or a panic.  A cell whose
\* vector type differs from the first cell's fails the type assertion of the
\* append; a column whose cells are all skipped keeps a nil vector, which
\* data.NewField rejects with a panic.
ColumnVector(records, idx) == VectorOfCells(records, ColumnCells(records, idx))

\* The last column index that carries the name of column idx: fieldValues is a
\* map keyed by the column name.
LastIndexOfName(columns, idx) ==
    CHOOSE j \in 1..Len(columns) :
        /\ columns[j] = columns[idx]
        /\ \A k \in 1..Len(columns) : columns[k] = columns[idx] => k <= j

\* The name a delegated column gets in the frame.
FireqlColumnName(column) == column \o "_USING_FIREQL"

\* fieldValues: the vector built for each column index.
ColumnVectors(columns, records) ==
    [idx \in 1..Len(columns) |-> ColumnVector(records, idx)]

FieldOfVector(name, v) == Field(name, v.type, v.values)

\* The frame of the delegated path: one field per column, in column order,
\* each taking the vector stored under its name.
FireqlFrame(columns, vec) ==
    IF \E idx \in 1..Len(columns) : vec[idx].panic \/ vec[idx].type = "nil"
    THEN Panicked
    ELSE Done(DataResponse(<<Frame([idx \in 1..Len(columns) |->
             FieldOfVector(FireqlColumnName(columns[idx]),
                           vec[LastIndexOfName(columns, idx)])])>>))

\* queryInternal from the return of fQuery.Execute on: libErr is the error
\* text ("" for none), isNil says the result is nil.
FireqlResponse(libErr, isNil, result) ==
    IF libErr # ""
    THEN Done(ErrDataResponse("BadRequest", "fireql.Execute: " \o libErr))
    ELSE IF isNil
    THEN Done(ErrDataResponse("Internal", "Query returned nil result"))
    ELSE FireqlFrame(result.Columns,
                     ColumnVectors(result.Columns, TruncateRecords(result.Records)))

(***************************************************************************)
(* The native path: documents, nested field access, manual filtering.      *)
(***************************************************************************)

RECURSIVE Descend(_, _)
\* A navigation that hands back an intermediate value that is no mapping.
DescendIntoLeaf(value, parts) ==
    IF value.t = "map" THEN Descend(value.m, Tail(parts)) ELSE value

DescendInto(value, parts) ==
    IF value.t = "map" THEN Descend(value.m, Tail(parts)) ELSE Nil

\* The loop of getNestedFieldValue over the parts of a dotted path.
Descend(current, parts) ==
    IF Len(parts) = 1 THEN MapGet(current, parts[1])
    ELSE DescendInto(MapGet(current, parts[1]), parts)

\* getNestedFieldValue
getNestedFieldValue(doc, fieldPath) ==
    IF ~Contains(fieldPath, ".") THEN MapGet(doc, fieldPath)
    ELSE Descend(doc, Split(fieldPath, "."))

ValuePasses(fieldValue, filter) ==
    /\ fieldValue.t # "nil"
    /\ ~(filter.Operator = "==" /\ Render(fieldValue) # filter.Value)

\* Whether a document passes one filter of applyManualFiltering.
PassesFilter(docData, filter) ==
    ValuePasses(getNestedFieldValue(docData, filter.Field), filter)

\* A filtering that keeps a document when some filter passes.
applyManualFilteringAny(docs, filters) ==
    IF Len(filters) = 0 \/ Len(docs) = 0 THEN docs
    ELSE SelectSeq(docs,
             LAMBDA docData :
                 \E i \in 1..Len(filters) : PassesFilter(docData, filters[i]))

\* applyManualFiltering
applyManualFiltering(docs, filters) ==
    IF Len(filters) = 0 \/ Len(docs) = 0 THEN docs
    ELSE SelectSeq(docs,
             LAMBDA docData :
                 \A i \in 1..Len(filters) : PassesFilter(docData, filters[i]))

(***************************************************************************)
(* float64 values, kept exact as fractions n/d in lowest terms, d > 0.     *)
(***************************************************************************)

Abs(x) == IF x < 0 THEN 0 - x ELSE x

RECURSIVE Gcd(_, _)
Gcd(a, b) == IF b = 0 THEN a ELSE Gcd(b, a % b)

Reduced(n, d, g) == FloatVal(n \div g, d \div g)

\* The float64 value n/d in lowest terms.
Float(n, d) == IF n = 0 THEN FloatVal(0, 1) ELSE Reduced(n, d, Gcd(Abs(n), d))

FloatAdd(x, y) == Float(x.n * y.d + y.n * x.d, x.d * y.d)

FloatLess(x, y) == x.n * y.d < y.n * x.d

FloatZero == FloatVal(0, 1)

RECURSIVE Pow10(_)
Pow10(k) == IF k = 0 THEN 1 ELSE 10 * Pow10(k - 1)

ParseFloatParts(negative, whole, frac) ==
    IF /\ whole \o frac # ""
       /\ (whole = "" \/ AllDigits(whole))
       /\ (frac = "" \/ AllDigits(frac))
    THEN [ok |-> TRUE,
          val |-> Float(IF negative THEN 0 - DigitsVal(whole \o frac, 0)
                        ELSE DigitsVal(whole \o frac, 0),
                        Pow10(Len(frac)))]
    ELSE [ok |-> FALSE, val |-> FloatVal(0, 1)]

ParseFloatAt(negative, body, dot) ==
    ParseFloatParts(negative,
                    IF dot = -1 THEN body ELSE Slice(body, 0, dot),
                    IF dot = -1 THEN "" ELSE Slice(body, dot + 1, Len(body)))

ParseFloatBody(negative, body) == ParseFloatAt(negative, body, Index(body, "."))

ParseFloatSigned(s, signed) ==
    ParseFloatBody(signed /\ Head(s) = "-", IF signed THEN Tail(s) ELSE s)

\* strconv.ParseFloat(s, 64) on decimal numerals: an optional sign, digits and
\* an optional fraction; [ok, val]
ParseFloat(s) == ParseFloatSigned(s, s # "" /\ Head(s) \in {"+", "-"})

\* convertToFloat: [ok, val]
convertToFloat(v) ==
    CASE v.t = "float64" -> [ok |-> TRUE, val |-> Float(v.n, v.d)]
      [] v.t \in {"int", "int32", "int64"} -> [ok |-> TRUE, val |-> Float(v.n, 1)]
      [] v.t = "string" -> ParseFloat(v.s)
      [] OTHER -> [ok |-> FALSE, val |-> FloatZero]

(***************************************************************************)
(* The native path without aggregation:                                    *)
(* convertFirestoreDocsToResponseWithFields.                               *)
(***************************************************************************)

\* The number of entries of a sequence equal to x.
Occurrences(seq, x) == Cardinality({i \in 1..Len(seq) : seq[i] = x})

\* The first position of "*" in a field list, 0 when there is none.
StarPos(fields) ==
    IF \E i \in 1..Len(fields) : fields[i] = "*"
    THEN MinOf({i \in 1..Len(fields) : fields[i] = "*"}) ELSE 0

EmptyFieldsCount(fields, star) == IF star = 0 THEN Len(fields) ELSE star

EmptyField(field, timeField) ==
    IF field = "*" THEN Field("no_data", "[]string", <<>>)
    ELSE IF field = timeField THEN Field(field, "[]time.Time", <<>>)
    ELSE Field(field, "[]string", <<>>)

\* The frame for zero documents: one column per requested field up to the
\* first "*", which becomes the column no_data and ends the list.
EmptyFieldsFrame(queryInfo) ==
    Frame([i \in 1..EmptyFieldsCount(queryInfo.Fields, StarPos(queryInfo.Fields)) |->
              EmptyField(queryInfo.Fields[i], queryInfo.TimeField)])

\* The field names present in some document.
AllFieldNames(docs) == UNION {DOMAIN docs[i] : i \in 1..Len(docs)}

\* The orders in which the iteration over a Go map may visit the keys S.
Orders(S) ==
    {o \in [1..Cardinality(S) -> S] : \A i, j \in 1..Cardinality(S) : o[i] = o[j] => i = j}

\* One value per document and occurrence, c occurrences.
Repeated(docs, fieldName, c) ==
    [p \in 1..(Len(docs) * c) |-> MapGet(docs[((p - 1) \div c) + 1], fieldName)]

\* fieldData[fieldName] after the extraction loop: every document appends one
\* value for each occurrence of the name in the field list.
FieldData(docs, fields, fieldName) ==
    Repeated(docs, fieldName, Occurrences(fields, fieldName))

ColumnOfValues(fieldName, timeField, values) ==
    IF fieldName = timeField
    THEN Field(fieldName, "[]time.Time",
               [p \in 1..Len(values) |->
                   IF values[p].t = "time" THEN values[p] ELSE TimeVal(0)])
    ELSE Field(fieldName, "[]string",
               [p \in 1..Len(values) |->
                   IF values[p].t # "nil" THEN StrVal(Render(values[p])) ELSE StrVal("")])

\* The column of one field: a time vector for the time field (a value that is
\* no time becoming the zero time), else the values as strings, nil as "".
FieldColumn(docs, fields, fieldName, timeField) ==
    ColumnOfValues(fieldName, timeField, FieldData(docs, fields, fieldName))

\* The frame of the documents: one column per entry of the field list.
FieldsFrame(docs, timeField, fields) ==
    Frame([i \in 1..Len(fields) |-> FieldColumn(docs, fields, fields[i], timeField)])

\* convertFirestoreDocsToResponseWithFields; starOrder is the order in which
\* the map of all field names is iterated when the query is SELECT *.
convertFirestoreDocsToResponseWithFields(docs, queryInfo, starOrder) ==
    IF Len(docs) = 0
    THEN DataResponse(<<EmptyFieldsFrame(queryInfo)>>)
    ELSE DataResponse(<<FieldsFrame(docs, queryInfo.TimeField,
             IF queryInfo.Fields = <<"*">> THEN starOrder ELSE queryInfo.Fields)>>)

(***************************************************************************)
(* The grouping and aggregation engine: processGroupByQueryWithOrdering.   *)
(***************************************************************************)

RECURSIVE Join(_, _)
\* strings.Join
Join(parts, sep) ==
    IF Len(parts) = 0 THEN ""
    ELSE IF Len(parts) = 1 THEN parts[1]
    ELSE parts[1] \o sep \o Join(Tail(parts), sep)

\* The group key of a document.
GroupKey(docData, groupByFields) ==
    Join([i \in 1..Len(groupByFields) |->
             Render(getNestedFieldValue(docData, groupByFields[i]))], "|")

\* The members of the group of a key, in document order.
GroupDocs(filteredDocs, groupByFields, key) ==
    SelectSeq(filteredDocs, LAMBDA docData : GroupKey(docData, groupByFields) = key)

CoercesValue(val) == val.t # "nil" /\ convertToFloat(val).ok

Coerces(docData, field) == CoercesValue(getNestedFieldValue(docData, field))

FloatsOf(docs, field) ==
    [i \in 1..Len(docs) |-> convertToFloat(getNestedFieldValue(docs[i], field)).val]

\* The values of a field over a group that coerce to float64.
CoercedValues(groupDocs, field) ==
    FloatsOf(SelectSeq(groupDocs, LAMBDA docData : Coerces(docData, field)), field)

RECURSIVE FloatSum(_)
FloatSum(vals) ==
    IF Len(vals) = 0 THEN FloatZero ELSE FloatAdd(vals[1], FloatSum(Tail(vals)))

FloatMin(vals) == CHOOSE x \in {vals[i] : i \in 1..Len(vals)} :
                      \A i \in 1..Len(vals) : ~FloatLess(vals[i], x)
FloatMax(vals) == CHOOSE x \in {vals[i] : i \in 1..Len(vals)} :
                      \A i \in 1..Len(vals) : ~FloatLess(x, vals[i])

\* sum / float64(count)
FloatAvg(sum, count) == Float(sum.n, sum.d * count)

\* An aggregation whose AVG divides by the size of the group.
AggregateOverGroupSize(function, count, vals) ==
    CASE function = "COUNT" -> Float(count, 1)
      [] function = "SUM" -> FloatSum(vals)
      [] function = "AVG" ->
            (IF count > 0 THEN FloatAvg(FloatSum(vals), count) ELSE FloatZero)
      [] function = "MIN" -> (IF Len(vals) > 0 THEN FloatMin(vals) ELSE FloatZero)
      [] function = "MAX" -> (IF Len(vals) > 0 THEN FloatMax(vals) ELSE FloatZero)
      [] OTHER -> FloatZero

\* The switch on aggField.Function: count is the size of the group, vals the
\* coerced values of the field.
AggregateOver(function, count, vals) ==
    CASE function = "COUNT" -> Float(count, 1)
      [] function = "SUM" -> FloatSum(vals)
      [] function = "AVG" ->
            (IF Len(vals) > 0 THEN FloatAvg(FloatSum(vals), Len(vals)) ELSE FloatZero)
      [] function = "MIN" -> (IF Len(vals) > 0 THEN FloatMin(vals) ELSE FloatZero)
      [] function = "MAX" -> (IF Len(vals) > 0 THEN FloatMax(vals) ELSE FloatZero)
      [] OTHER -> FloatZero

\* The value of one aggregate over a group (the switch on aggField.Function).
AggregateValue(aggField, groupDocs) ==
    AggregateOver(aggField.Function, Len(groupDocs),
                  CoercedValues(groupDocs, aggField.Field))

RECURSIVE AliasAfterAs(_)
\* The part that follows the first part equal to AS, if there is one.
AliasAfterAs(parts) ==
    IF Len(parts) < 2 THEN <<>>
    ELSE IF ToUpper(parts[1]) = "AS" THEN <<parts[2]>>
    ELSE AliasAfterAs(Tail(parts))

FoundAlias(found, alias) == IF Len(found) = 1 THEN found[1] ELSE alias

\* The alias of an aggregate cleaned of function syntax.
CleanedAlias(aggField) ==
    IF Contains(aggField.Alias, "(") /\ Contains(aggField.Alias, ")")
    THEN IF Contains(ToUpper(aggField.Alias), " AS ")
         THEN FoundAlias(AliasAfterAs(Split(aggField.Alias, " ")), aggField.Alias)
         ELSE ToLower(aggField.Function)
    ELSE aggField.Alias

\* Whether ORDER BY names this aggregate (the test made during aggregation).
OrderMatches(orderField, aggField) ==
    \/ orderField = aggField.Alias
    \/ orderField = CleanedAlias(aggField)
    \/ orderField = ToLower(aggField.Function)

\* The largest element of a non-empty set of numbers.
MaxOf(S) == CHOOSE x \in S : \A y \in S : y <= x

\* The aggregates ORDER BY names, and the GROUP BY fields equal to the order
\* field whose value coerces.
OrderAggregates(queryInfo) ==
    {j \in 1..Len(queryInfo.AggregateFields) :
        OrderMatches(queryInfo.OrderField, queryInfo.AggregateFields[j])}

OrderGroupFields(queryInfo, groupValues) ==
    {i \in 1..Len(queryInfo.GroupByFields) :
        /\ queryInfo.OrderField = queryInfo.GroupByFields[i]
        /\ convertToFloat(groupValues[i]).ok}

\* The last assignment to SortValue wins.
LastAssigned(groupValues, aggregateValues, grps, aggs) ==
    IF grps # {} THEN convertToFloat(groupValues[MaxOf(grps)]).val
    ELSE IF aggs # {} THEN aggregateValues[MaxOf(aggs)]
    ELSE FloatZero

\* The sort value a result leaves the aggregation loop with: every matching
\* aggregate assigns it in SELECT order, then every GROUP BY field equal to
\* the order field whose value coerces assigns it again.
SortValueOf(queryInfo, groupValues, aggregateValues) ==
    IF queryInfo.OrderField = "" THEN FloatZero
    ELSE LastAssigned(groupValues, aggregateValues,
                      OrderGroupFields(queryInfo, groupValues),
                      OrderAggregates(queryInfo))

NamedAggregates(queryInfo) ==
    {j \in 1..Len(queryInfo.AggregateFields) :
        \/ queryInfo.OrderField = queryInfo.AggregateFields[j].Alias
        \/ queryInfo.OrderField = ToLower(queryInfo.AggregateFields[j].Function)}

RecoveredFrom(result, aggs) ==
    IF aggs # {} THEN result.AggregateValues[MaxOf(aggs)] ELSE result.SortValue

\* The second pass before sorting: a result whose sort value is 0 takes the
\* value of the aggregates named by alias or lower-cased function.
RecoveredSortValue(queryInfo, result) ==
    IF result.SortValue = FloatZero
    THEN RecoveredFrom(result, NamedAggregates(queryInfo))
    ELSE result.SortValue

ResultOf(queryInfo, groupValues, aggregateValues) ==
    [GroupValues |-> groupValues,
     AggregateValues |-> aggregateValues,
     SortValue |-> SortValueOf(queryInfo, groupValues, aggregateValues)]

\* The AggregatedResult of one group.
GroupResult(queryInfo, groupDocs) ==
    ResultOf(queryInfo,
             [i \in 1..Len(queryInfo.GroupByFields) |->
                 getNestedFieldValue(groupDocs[1], queryInfo.GroupByFields[i])],
             [j \in 1..Len(queryInfo.AggregateFields) |->
                 AggregateValue(queryInfo.AggregateFields[j], groupDocs)])

\* An exchange sort that sorts ascending whatever the direction.
ShouldSwapAscending(direction, ri, rj) == FloatLess(rj.SortValue, ri.SortValue)

\* Whether the exchange sort swaps positions i < j.
ShouldSwap(direction, ri, rj) ==
    IF direction = "DESC" THEN FloatLess(ri.SortValue, rj.SortValue)
    ELSE FloatLess(rj.SortValue, ri.SortValue)

RECURSIVE SortFrom(_, _, _, _)
\* The exchange sort from the pair (i, j) on: for i, for j > i, swap.
SortFrom(results, direction, i, j) ==
    IF i >= Len(results) THEN results
    ELSE IF j > Len(results) THEN SortFrom(results, direction, i + 1, i + 2)
    ELSE IF ShouldSwap(direction, results[i], results[j])
         THEN SortFrom([results EXCEPT ![i] = results[j], ![j] = results[i]],
                       direction, i, j + 1)
         ELSE SortFrom(results, direction, i, j + 1)

\* Step 3: ORDER BY over the aggregated results.
ApplyOrderBy(queryInfo, results) ==
    IF queryInfo.OrderField = "" THEN results
    ELSE SortFrom([i \in 1..Len(results) |->
                      [results[i] EXCEPT !.SortValue =
                                             RecoveredSortValue(queryInfo, results[i])]],
                  queryInfo.OrderDirection, 1, 2)

\* A LIMIT that keeps the last results instead of the first.
ApplyLimitLast(queryInfo, results) ==
    IF queryInfo.Limit > 0 /\ queryInfo.Limit < Len(results)
    THEN SubSeq(results, Len(results) - queryInfo.Limit + 1, Len(results))
    ELSE results

\* Step 4: LIMIT over the sorted results.
ApplyLimit(queryInfo, results) ==
    IF queryInfo.Limit > 0 /\ queryInfo.Limit < Len(results)
    THEN SubSeq(results, 1, queryInfo.Limit) ELSE results

\* Step 5: the frame of the results.
ResultsFrame(queryInfo, results) ==
    Frame([i \in 1..Len(queryInfo.GroupByFields) |->
              Field(queryInfo.GroupByFields[i], "[]string",
                    [j \in 1..Len(results) |->
                        StrVal(Render(results[j].GroupValues[i]))])]
          \o
          [i \in 1..Len(queryInfo.AggregateFields) |->
              Field(CleanedAlias(queryInfo.AggregateFields[i]), "[]float64",
                    [j \in 1..Len(results) |-> results[j].AggregateValues[i]])])

\* The frame for zero documents.
EmptyGroupFrame(queryInfo) ==
    Frame([i \in 1..Len(queryInfo.GroupByFields) |->
              Field(queryInfo.GroupByFields[i], "[]string", <<>>)]
          \o
          [i \in 1..Len(queryInfo.AggregateFields) |->
              Field(queryInfo.AggregateFields[i].Alias, "[]float64", <<>>)])

\* Step 1: the groups map, its values in the iteration order of the map.
GroupsOf(filteredDocs, queryInfo, groupOrder) ==
    [g \in 1..Len(groupOrder) |->
        GroupDocs(filteredDocs, queryInfo.GroupByFields, groupOrder[g])]

\* Step 2: one result per group, in the iteration order of the groups map.
GroupResults(filteredDocs, queryInfo, groupOrder) ==
    [g \in 1..Len(groupOrder) |->
        GroupResult(queryInfo,
            GroupDocs(filteredDocs, queryInfo.GroupByFields, groupOrder[g]))]

\* processGroupByQueryWithOrdering; groupOrder is the order in which the map
\* of groups is iterated, a sequence of the group keys.
processGroupByQueryWithOrdering(docs, queryInfo, groupOrder) ==
    IF Len(docs) = 0
    THEN DataResponse(<<EmptyGroupFrame(queryInfo)>>)
    ELSE DataResponse(<<ResultsFrame(queryInfo,
             ApplyLimit(queryInfo, ApplyOrderBy(queryInfo,
                 GroupResults(applyManualFiltering(docs, queryInfo.AdditionalFilters),
                              queryInfo, groupOrder))))>>)

KeysOf(filteredDocs, groupByFields) ==
    {GroupKey(filteredDocs[i], groupByFields) : i \in 1..Len(filteredDocs)}

\* The keys of the groups map built from the filtered documents.
GroupKeys(docs, queryInfo) ==
    KeysOf(applyManualFiltering(docs, queryInfo.AdditionalFilters),
           queryInfo.GroupByFields)

(***************************************************************************)
(* The store query the native path builds (executeWithNativeSDKForVariables*)
(* up to Documents(ctx).GetAll()) and what the store answers.              *)
(***************************************************************************)

\* Whether a plan is an aggregating plan.
IsAggregating(queryInfo) ==
    Len(queryInfo.GroupByFields) > 0 \/ Len(queryInfo.AggregateFields) > 0

\* The firestore.Query built from a plan and the time range: the time-range
\* Where pair on TimeField, the OrderBy and the Limit ("" and 0: none).
BuildStoreQuery(queryInfo, from, to) ==
    [Collection |-> queryInfo.Collection,
     WhereField |-> queryInfo.TimeField,
     From |-> from,
     To |-> to,
     OrderField |-> IF queryInfo.OrderField # "" /\ ~IsAggregating(queryInfo)
                    THEN queryInfo.OrderField ELSE "",
     OrderDirection |-> IF queryInfo.OrderField # "" /\ ~IsAggregating(queryInfo)
                        THEN (IF queryInfo.OrderDirection = "DESC" THEN "DESC" ELSE "ASC")
                        ELSE "",
     Limit |-> IF queryInfo.Limit > 0 THEN queryInfo.Limit ELSE 0]

NoStoreQuery ==
    [Collection |-> "", WhereField |-> "", From |-> 0, To |-> 0,
     OrderField |-> "", OrderDirection |-> "", Limit |-> 0]

\* The characters in increasing byte order, for the store's string ordering.
CharOrder == " $()*,.0123456789<=>@ABCDEFGHIJKLMNOPQRSTUVWXYZ_abcdefghijklmnopqrstuvwxyz|"

RECURSIVE StrLess(_, _)
StrLess(a, b) ==
    IF b = "" THEN FALSE
    ELSE IF a = "" THEN TRUE
    ELSE IF Head(a) = Head(b) THEN StrLess(Tail(a), Tail(b))
    ELSE Index(CharOrder, Head(a)) < Index(CharOrder, Head(b))

\* Firestore's order of value types.
TypeRank(v) ==
    CASE v.t = "nil" -> 0 [] v.t = "bool" -> 1
      [] v.t \in {"int", "int32", "int64", "float64"} -> 2
      [] v.t = "time" -> 3 [] v.t = "string" -> 4 [] OTHER -> 5

\* Firestore's order of values.
StoreLess(x, y) ==
    IF TypeRank(x) # TypeRank(y) THEN TypeRank(x) < TypeRank(y)
    ELSE IF x.t = "string" THEN StrLess(x.s, y.s)
    ELSE x.n * y.d < y.n * x.d

RECURSIVE InsertSorted(_, _, _, _)
InsertSorted(sorted, docData, field, desc) ==
    IF Len(sorted) = 0 THEN <<docData>>
    ELSE IF (IF desc THEN StoreLess(sorted[1][field], docData[field])
                     ELSE StoreLess(docData[field], sorted[1][field]))
         THEN <<docData>> \o sorted
         ELSE <<sorted[1]>> \o InsertSorted(Tail(sorted), docData, field, desc)

RECURSIVE StoreSort(_, _, _)
StoreSort(docs, field, desc) ==
    IF Len(docs) = 0 THEN <<>>
    ELSE InsertSorted(StoreSort(SubSeq(docs, 1, Len(docs) - 1), field, desc),
                      docs[Len(docs)], field, desc)

InRange(content, sq) ==
    IF sq.WhereField = "" THEN content
    ELSE SelectSeq(content,
             LAMBDA docData :
                 /\ sq.WhereField \in DOMAIN docData
                 /\ docData[sq.WhereField].t = "time"
                 /\ sq.From <= docData[sq.WhereField].n
                 /\ docData[sq.WhereField].n <= sq.To)

Ordered(docs, sq) ==
    IF sq.OrderField = "" THEN docs
    ELSE StoreSort(SelectSeq(docs, LAMBDA docData : sq.OrderField \in DOMAIN docData),
                   sq.OrderField, sq.OrderDirection = "DESC")

Limited(docs, sq) ==
    IF sq.Limit > 0 /\ sq.Limit < Len(docs) THEN SubSeq(docs, 1, sq.Limit) ELSE docs

\* The documents the store returns for a query over a collection's content:
\* those whose WhereField is a time within [From, To], ordered by OrderField
\* (documents without the field are left out), at most Limit of them.
StoreAnswer(content, sq) == Limited(Ordered(InRange(content, sq), sq), sq)

ResponsesOver(filtered, queryInfo) ==
    IF IsAggregating(queryInfo)
    THEN {processGroupByQueryWithOrdering(filtered, queryInfo, groupOrder) :
             groupOrder \in Orders(GroupKeys(filtered, queryInfo))}
    ELSE {convertFirestoreDocsToResponseWithFields(filtered, queryInfo, starOrder) :
             starOrder \in Orders(AllFieldNames(filtered))}

\* executeWithNativeSDKForVariables after GetAll returned docs: the set of
\* the responses it may give, one for each iteration order of the Go maps
\* involved (the groups, and the field names of SELECT *).
NativeResponses(docs, queryInfo) ==
    ResponsesOver(IF Len(queryInfo.AdditionalFilters) > 0
                  THEN applyManualFiltering(docs, queryInfo.AdditionalFilters)
                  ELSE docs,
                  queryInfo)

(***************************************************************************)
(* The query router (queryInternal).                                       *)
(***************************************************************************)

\* A router that looks for $__from alone.
containsFromVariable(query) == Contains(query, "$__from")

\* containsGrafanaVariables
containsGrafanaVariables(query) ==
    Contains(query, "$__from") \/ Contains(query, "$__to")

\* containsGroupBy
containsGroupBy(query) == Contains(ToLower(query), "group by")

\* A router that does not look at the time range.
RoutesIgnoringRange(query, from, to) ==
    containsGrafanaVariables(query) \/ containsGroupBy(query)

\* The routing condition of queryInternal; a time of 0 is the zero time.
RoutesToNative(query, from, to) ==
    \/ (containsGrafanaVariables(query) /\ from # 0 /\ to # 0)
    \/ containsGroupBy(query)

(***************************************************************************)
(* The inputs of the model: query texts, time ranges, the content of the  *)
(* store and the results of the library.                                   *)
(***************************************************************************)

\* The largest number of queries in one request.
MaxQueries == 2

QPlain == "select * from users"
QVars == "select id, email from users where t >= $__from AND t <= $__to"
QVarsDup == "select id, id, email from users where t >= $__to"
QUpperVars == "select id from users where t >= $__FROM"
QGroup == "SELECT status, COUNT(*) as total FROM orders GROUP BY status ORDER BY total DESC"
QGroupLimit == "select status, sum(amt) from orders Group By status limit 1"
QVarsGroup == "select status, count(*) as n from orders where t >= $__from group by status"
QNoFields == "select from x group by a"
QNoSelect == "group by status"

\* The query texts that reference no time variable, and those that do.
PlainTexts == {"", QPlain, QUpperVars, QGroup, QGroupLimit, QNoFields, QNoSelect}
VarTexts == {QVars, QVarsDup, QVarsGroup}
QueryTexts == PlainTexts \cup VarTexts

\* The two ends of a non-zero time range; 0 is the zero time.
TFrom == 4
TTo == 6

\* The queries of a request: the JSON either fails to unmarshal or carries a
\* query text; the time range has each bound zero or set.
QueryInputs ==
    {[JSONok |-> FALSE, Query |-> "", From |-> 0, To |-> 0]}
    \cup [JSONok : {TRUE}, Query : PlainTexts, From : {0, TFrom}, To : {TTo}]
    \cup [JSONok : {TRUE}, Query : VarTexts, From : {0, TFrom}, To : {0, TTo}]

\* The datasource settings of a request.
SettingsSet ==
    {[JSONok |-> TRUE, ProjectId |-> "test"],
     [JSONok |-> TRUE, ProjectId |-> ""],
     [JSONok |-> FALSE, ProjectId |-> ""]}

UserA == [id |-> Int64Val(1), email |-> StrVal("a@x.io"), t |-> TimeVal(5)]
UserB == [id |-> Int64Val(2), t |-> TimeVal(6)]
UserC == [id |-> Int64Val(3), email |-> StrVal("c@x.io"), t |-> TimeVal(9)]
OrderA == [status |-> StrVal("open"), amt |-> Int64Val(10), t |-> TimeVal(5)]
OrderB == [status |-> StrVal("open"), amt |-> Int64Val(30), t |-> TimeVal(6)]
OrderC == [status |-> StrVal("closed"), amt |-> Int64Val(5), t |-> TimeVal(5)]

\* The contents a collection of the store may have.
StoreContents(collection) ==
    CASE collection = "users" -> {<<>>, <<UserA, UserB, UserC>>}
      [] collection = "orders" -> {<<>>, <<OrderA, OrderB, OrderC>>}
      [] OTHER -> {<<>>}

\* The results the library may return.
LibComplete == LibResult(<<"id", "name">>,
                   <<Row(<<Int64Val(1), StrVal("ann")>>), Row(<<Int64Val(2), StrVal("bob")>>)>>)
LibSparse == LibResult(<<"id", "email">>,
                 <<Row(<<FloatVal(21, 1), Nil>>), Row(<<FloatVal(20, 1), StrVal("a@x.io")>>)>>)
LibNoRecords == LibResult(<<"id">>, <<>>)
LibMixed == LibResult(<<"v">>, <<Row(<<IntVal(1)>>), Row(<<StrVal("x")>>)>>)
LibRagged == LibResult(<<"id", "name">>,
                 <<NilRow, Row(<<Int64Val(1)>>), Row(<<Int64Val(2), StrVal("bob")>>)>>)
LibLarge == LibResult(<<"n">>, [i \in 1..(MaxRecords + 1) |-> Row(<<IntVal(i)>>)])

LibResults == {LibComplete, LibSparse, LibNoRecords, LibMixed, LibRagged}

\* The ways a call of fQuery.Execute may return.
LibOutcomes ==
    {[err |-> "", isNil |-> FALSE, result |-> r] : r \in LibResults}
    \cup {[err |-> "", isNil |-> TRUE, result |-> LibNoRecords],
          [err |-> "rpc error", isNil |-> TRUE, result |-> LibNoRecords]}

\* A return of fQuery.Execute with more records than the cap.
LargeOutcome == [err |-> "", isNil |-> FALSE, result |-> LibLarge]

\* parseSQLQueryWithVariables over the query texts, tabulated.
PlanTable == {[Query |-> q, plan |-> parseSQLQueryWithVariables(q)] : q \in QueryTexts}

PlanOf(q) == (CHOOSE e \in PlanTable : e.Query = q).plan

\* The inputs the router sends to the native path.
NativeInputs == {in \in QueryInputs : RoutesToNative(in.Query, in.From, in.To)}

\* FireqlResponse over the library outcomes, tabulated.
FireqlTable ==
    {[outcome |-> o, result |-> FireqlResponse(o.err, o.isNil, o.result)] :
        o \in LibOutcomes \cup {LargeOutcome}}

FireqlResponseOf(o) == (CHOOSE e \in FireqlTable : e.outcome = o).result

(***************************************************************************)
(* The state machine: QueryData looping over the queries of one request.   *)
(* A query is begun (query, queryInternal up to the call that leaves the   *)
(* process: fQuery.Execute, or newFirestoreClient and then                 *)
(* Documents(ctx).GetAll()) and goes on when that call returns.  None of   *)
(* the calls is given a deadline by the plugin.                            *)
(***************************************************************************)

VARIABLES
    settings,        \* the datasource settings of the request
    reqLen,          \* the number of queries of the request
    next,            \* the position of QueryData's loop (1-based)
    pc,              \* "loop", "fireql", "client", "store", "done" or "crashed"
    cur,             \* the locals of the query in flight: input, call and plan
    routed,          \* RefID -> the path the query was routed to
    responses,       \* response.Responses: RefID -> DataResponse
    deadlinePassed,  \* 30 seconds have passed since the pending Execute began
    text,            \* the argument of a call of parseSQLQueryWithVariables
    parsed,          \* what that call returned, once it has
    engine,          \* the native path after GetAll returned: stage and locals
    rewrite,         \* a call of a query-rewriting function and its result
    health,          \* a call of CheckHealth: settings, position and result
    lookup,          \* a call of getNestedFieldValue and its result
    timed            \* a call of executeWithTimeout: worker, caller, channels

\* The calls that go on beside a request and a call of the parser.
otherCalls == <<engine, rewrite, health, lookup, timed>>

vars == <<settings, reqLen, next, pc, cur, routed, responses, deadlinePassed,
          text, parsed, engine, rewrite, health, lookup, timed>>

\* The RefID of the i-th query of the request.
RefIDOf(i) == "ref" \o ToString(i - 1)

NoQuery ==
    [RefID |-> "", Query |-> "", From |-> 0, To |-> 0,
     sent |-> "", info |-> EmptyInfo, storeQuery |-> NoStoreQuery]

NotParsed == [kind |-> "none", err |-> "", info |-> EmptyInfo]

\* The native path at rest: no documents fetched.
NoEngine ==
    [stage |-> "idle", info |-> EmptyInfo, queried |-> FALSE, content |-> <<>>,
     fetched |-> <<>>, docs |-> <<>>,
     groups |-> <<>>, sorted |-> <<>>, results |-> <<>>,
     response |-> DataResponse(<<>>)]

\* No call of a rewriting function.
NoRewrite ==
    [fn |-> "none", query |-> "", timeField |-> "", from |-> 0, to |-> 0,
     returned |-> FALSE, out |-> ""]

\* No health check.
NoHealth ==
    [pc |-> "idle", serviceAccount |-> "", listed |-> "", status |-> "",
     message |-> ""]

\* No call of getNestedFieldValue.
NoLookup == [doc |-> NoMap, path |-> "", returned |-> FALSE, value |-> Nil]

\* What a call of fQuery.Execute hands over: nothing yet.
NoOutcome == [kind |-> "none", err |-> "", isNil |-> TRUE, result |-> LibNoRecords]

\* No call of executeWithTimeout.
NoTimed ==
    [query |-> "", worker |-> "idle", caller |-> "idle", resultChan |-> <<>>,
     errorChan |-> <<>>, ctxDone |-> FALSE, executed |-> NoOutcome,
     sends |-> 0, returned |-> NoOutcome]

\* No call of a helper function on its own.
HelpersIdle == lookup = NoLookup /\ timed = NoTimed

\* Nothing goes on beside the request.
OthersIdle ==
    engine = NoEngine /\ rewrite = NoRewrite /\ health = NoHealth /\ HelpersIdle

\* m[k] = v of a Go map
MapSet(m, k, v) == [x \in DOMAIN m \cup {k} |-> IF x = k THEN v ELSE m[x]]

\* query() without its deferred recover: a panic of queryInternal escapes.
queryUnrecovered(outcome) ==
    [crashed |-> outcome.panic, response |-> outcome.response]

\* The recovery boundary of query(): a panic of queryInternal becomes the
\* internal-error response; nothing escapes to QueryData.
query(outcome) ==
    [crashed |-> FALSE,
     response |-> IF outcome.panic THEN RecoveredResponse ELSE outcome.response]

Completed(refID, res) ==
    /\ cur' = NoQuery
    /\ IF res.crashed
       THEN /\ pc' = "crashed"
            /\ UNCHANGED <<next, responses>>
       ELSE /\ pc' = "loop"
            /\ next' = next + 1
            /\ responses' = MapSet(responses, refID, res.response)

\* QueryData storing the response of a query and moving on; a panic that
\* escaped query() ends the process instead.
Complete(refID, outcome) == Completed(refID, query(outcome))

\* A request arrives: QueryData is about to process its first query.
RequestInit ==
    /\ settings \in SettingsSet
    /\ reqLen \in 1..MaxQueries
    /\ next = 1
    /\ pc = "loop"
    /\ cur = NoQuery
    /\ routed = [id \in {} |-> "none"]
    /\ responses = [id \in {} |-> DataResponse(<<>>)]
    /\ deadlinePassed = FALSE

Init ==
    /\ RequestInit
    /\ text = ""
    /\ parsed = NotParsed
    /\ OthersIdle

\* The checks of queryInternal before routing pass for this input.
Valid(in, newErr) ==
    in.JSONok /\ settings.JSONok /\ settings.ProjectId # "" /\ ~newErr

\* A query fails before routing: bad query JSON, bad settings, no project
\* id, or fireql.New failing.
BeginInvalid(in, newErr) ==
    /\ pc = "loop" /\ next <= reqLen
    /\ ~Valid(in, newErr)
    /\ routed' = MapSet(routed, RefIDOf(next), "none")
    /\ Complete(RefIDOf(next), Done(ErrDataResponse("BadRequest",
            IF ~in.JSONok THEN "json unmarshal: unexpected end of JSON input"
            ELSE IF ~settings.JSONok THEN "ProjectID: unexpected end of JSON input"
            ELSE IF settings.ProjectId = "" THEN "ProjectID is required"
            ELSE "fireql.NewFireQL: no client")))
    /\ UNCHANGED <<settings, reqLen, deadlinePassed, text, parsed, otherCalls>>

\* A query with an empty text: the empty response, no frame.
BeginEmpty(in) ==
    /\ pc = "loop" /\ next <= reqLen
    /\ Valid(in, FALSE)
    /\ in.Query = ""
    /\ routed' = MapSet(routed, RefIDOf(next), "none")
    /\ Complete(RefIDOf(next), Done(DataResponse(<<>>)))
    /\ UNCHANGED <<settings, reqLen, deadlinePassed, text, parsed, otherCalls>>

\* A query routed to the delegated path: fQuery.Execute(finalQuery) is called
\* with the query text.
BeginFireql(in) ==
    /\ pc = "loop" /\ next <= reqLen
    /\ Valid(in, FALSE)
    /\ in.Query # ""
    /\ in \notin NativeInputs
    /\ routed' = MapSet(routed, RefIDOf(next), "fireql")
    /\ cur' = [NoQuery EXCEPT !.RefID = RefIDOf(next), !.Query = in.Query,
                              !.From = in.From, !.To = in.To, !.sent = in.Query]
    /\ pc' = "fireql"
    /\ deadlinePassed' = FALSE
    /\ UNCHANGED <<settings, reqLen, next, responses, text, parsed, otherCalls>>

\* A query routed to the native path: executeWithNativeSDKForVariables is
\* called and asks for a Firestore client.
BeginNative(in) ==
    /\ pc = "loop" /\ next <= reqLen
    /\ Valid(in, FALSE)
    /\ in.Query # ""
    /\ in \in NativeInputs
    /\ routed' = MapSet(routed, RefIDOf(next), "native")
    /\ cur' = [NoQuery EXCEPT !.RefID = RefIDOf(next), !.Query = in.Query,
                              !.From = in.From, !.To = in.To]
    /\ pc' = "client"
    /\ UNCHANGED <<settings, reqLen, next, responses, deadlinePassed, text, parsed, otherCalls>>

\* newFirestoreClient fails.
ClientFails ==
    /\ pc = "client"
    /\ Complete(cur.RefID,
                Done(ErrDataResponse("BadRequest", "Firestore client: no credentials")))
    /\ UNCHANGED <<settings, reqLen, routed, deadlinePassed, text, parsed, otherCalls>>

\* The client is there and the parser fails: it returns its error or panics.
ParseFails ==
    /\ pc = "client"
    /\ PlanOf(cur.Query).kind # "plan"
    /\ Complete(cur.RefID,
                IF PlanOf(cur.Query).kind = "error"
                THEN Done(ErrDataResponse("BadRequest",
                         "Query parsing: " \o PlanOf(cur.Query).err))
                ELSE Panicked)
    /\ UNCHANGED <<settings, reqLen, routed, deadlinePassed, text, parsed, otherCalls>>

\* The client is there and the query is parsed: the store query is built and
\* Documents(ctx).GetAll() is called.
ParseSucceeds ==
    /\ pc = "client"
    /\ PlanOf(cur.Query).kind = "plan"
    /\ cur' = [cur EXCEPT !.info = PlanOf(cur.Query).info,
                          !.storeQuery = BuildStoreQuery(PlanOf(cur.Query).info,
                                                         cur.From, cur.To)]
    /\ pc' = "store"
    /\ UNCHANGED <<settings, reqLen, next, routed, responses, deadlinePassed,
                   text, parsed, otherCalls>>

\* fQuery.Execute returns; the rest of queryInternal builds the response.
FireqlReturn(o) ==
    /\ pc = "fireql"
    /\ Complete(cur.RefID, FireqlResponseOf(o))
    /\ UNCHANGED <<settings, reqLen, routed, deadlinePassed, text, parsed, otherCalls>>

\* 30 seconds pass while fQuery.Execute is pending.
DeadlineExpires ==
    /\ pc = "fireql"
    /\ ~deadlinePassed
    /\ deadlinePassed' = TRUE
    /\ UNCHANGED <<settings, reqLen, next, pc, cur, routed, responses, text, parsed, otherCalls>>

\* GetAll fails.
StoreFails ==
    /\ pc = "store"
    /\ Complete(cur.RefID, Done(ErrDataResponse("BadRequest", "Native query: unavailable")))
    /\ UNCHANGED <<settings, reqLen, routed, deadlinePassed, text, parsed, otherCalls>>

\* GetAll returns the documents of the collection that satisfy the store
\* query; filtering, aggregation and conversion build the response.
StoreReturn(content, response) ==
    /\ pc = "store"
    /\ response \in NativeResponses(StoreAnswer(content, cur.storeQuery), cur.info)
    /\ Complete(cur.RefID, Done(response))
    /\ UNCHANGED <<settings, reqLen, routed, deadlinePassed, text, parsed, otherCalls>>

\* QueryData returns the response map and a nil error.
Finish ==
    /\ pc = "loop" /\ next > reqLen
    /\ pc' = "done"
    /\ UNCHANGED <<settings, reqLen, next, cur, routed, responses, deadlinePassed,
                   text, parsed, otherCalls>>

Begin ==
    \E in \in QueryInputs :
        \/ \E newErr \in BOOLEAN : BeginInvalid(in, newErr)
        \/ BeginEmpty(in)
        \/ BeginFireql(in)
        \/ BeginNative(in)

\* newFirestoreClient returns and, with a client, the query is parsed.
ClientReturns == ClientFails \/ ParseFails \/ ParseSucceeds

LibraryReturns == \E o \in LibOutcomes : FireqlReturn(o)

StoreReturns ==
    \/ StoreFails
    \/ \E content \in StoreContents(cur.storeQuery.Collection) :
           \E response \in NativeResponses(StoreAnswer(content, cur.storeQuery), cur.info) :
               StoreReturn(content, response)

Next ==
    Begin \/ ClientReturns \/ LibraryReturns \/ DeadlineExpires \/ StoreReturns \/ Finish

Spec == Init /\ [][Next]_vars

\* The plugin's own steps are taken when they can be, the store answers and
\* time passes; the library's return from Execute is not assumed.
FairSpec ==
    Spec /\ WF_vars(Begin) /\ WF_vars(Finish) /\ WF_vars(DeadlineExpires)
         /\ WF_vars(ClientReturns) /\ WF_vars(StoreReturns)

(***************************************************************************)
(* Requests of a single query, the library also returning a result with    *)
(* more records than the cap.                                              *)
(***************************************************************************)

SingleInit == Init /\ reqLen = 1

LargeReturn == FireqlReturn(LargeOutcome)

SingleNext == Next \/ LargeReturn

SingleSpec == SingleInit /\ [][SingleNext]_vars

(***************************************************************************)
(* The parser on its own: parseSQLQueryWithVariables applied to a query    *)
(* text.                                                                   *)
(***************************************************************************)

\* The parts query texts are assembled from.
Heads == {"select a", "SELECT a, COUNT(*) as n", "select"}
Separators == {" ", "\n", "\t"}
Froms == {"from x", "FROM orders"}
Wheres == {"", "where b = 1", "WHERE t >= $__from"}
GroupBys == {"", "group by a", "GROUP BY a"}
OrderBys == {"", "order by a desc"}
Limits == {"", "limit 5"}

\* A clause placed after what precedes it, when there is one.
Clause(sep, clause) == IF clause = "" THEN "" ELSE sep \o clause

\* SELECT <fields> FROM <collection> [WHERE ...] [GROUP BY ...] [ORDER BY ...]
\* [LIMIT n], the clauses separated by sep.
Assembled(head, sep, from, where, groupBy, orderBy, limit) ==
    head \o sep \o from \o Clause(sep, where) \o Clause(sep, groupBy)
         \o Clause(sep, orderBy) \o Clause(sep, limit)

AssembledTexts ==
    {Assembled(t[1], t[2], t[3], t[4], t[5], t[6], t[7]) :
        t \in Heads \X Separators \X Froms \X Wheres \X GroupBys \X OrderBys \X Limits}

\* Texts whose clause keywords overlap or come in another order.
OddTexts ==
    {QGroup, QNoFields, QNoSelect, "",
     "select a from group by a",
     "select a from x where group by a",
     "select a from x group by order by a",
     "select a from x order by limit 5",
     "select a where b = 1 from x",
     "select a from x limit -5",
     "select a from x where a = 1 group by a limit 5"}

\* What may precede a clause keyword: a space, a newline, a carriage return
\* and newline, a newline followed by two spaces or by a tab.
LineBreaks == {" ", "\n", "\r\n", "\n  ", "\n\t"}

\* select a from x [where b = 1] [group by a] [order by a desc] [limit 5],
\* each clause preceded by br.
LineText(br, where, groupBy, orderBy, limit) ==
    "select a from x" \o Clause(br, where) \o Clause(br, groupBy)
                      \o Clause(br, orderBy) \o Clause(br, limit)

\* Texts whose clauses are each on a line of their own.
LineTexts ==
    {LineText(t[1], t[2], t[3], t[4], t[5]) :
        t \in LineBreaks \X {"", "where b = 1"} \X {"", "group by a"}
                  \X {"", "order by a desc"} \X {"", "limit 5"}}

\* Texts whose WHERE clause compares a field with a literal.
ComparisonTexts ==
    {"select a from x where amt " \o op \o " 5" : op \in {"=", "==", ">=", "<=", "!=", ">", "<"}}
        \cup {"select a from x where amt=5", "select a from x where amt==5",
              "select a from x where amt>=5",
              "select a from x where b = 1 AND amt >= 5",
              "select a from x where amt < 5 AND b == 'u'"}

\* Texts that end in a LIMIT clause.
LimitTexts ==
    {"select a from x limit " \o n : n \in {"0", "12", "-5", "-1", "ten", "5 offset 2", "3.5"}}
        \cup {"select a from x order by a LIMIT 12", "select a from x limit"}

\* Texts whose SELECT list holds aggregate functions, at the start of an entry
\* or inside it.
AggregateTexts ==
    {"select a, " \o e \o " from x group by a" :
        e \in {"sum(amt)", "Avg(amt) as m", "MIN(amt), max(amt)", "count(*)",
               "round(sum(amt)) as r", "2*COUNT(*) as n", "(max(amt)) as top",
               "discount(amt)"}}

\* Texts whose WHERE clause compares a field with $__from or $__to, with and
\* without spaces around the operator.
TimeTexts ==
    {"select id from users where " \o w :
        w \in {"t >= $__from", "t>=$__from", "t > $__from", "t>$__from",
               "t <= $__to", "t<=$__to", "t < $__to",
               "t >= $__from AND t <= $__to", "t>=$__from AND t<=$__to",
               "id = 1 AND t >= $__from", "id = 1 AND t<$__to",
               "t >= $__from AND id = 1", "ts > $__from AND t <= $__to"}}

ParseTexts == AssembledTexts \cup OddTexts \cup LineTexts \cup ComparisonTexts
                  \cup LimitTexts \cup AggregateTexts \cup TimeTexts

ParseInit ==
    /\ settings = [JSONok |-> TRUE, ProjectId |-> "test"]
    /\ reqLen = 1
    /\ next = 1
    /\ pc = "loop"
    /\ cur = NoQuery
    /\ routed = [id \in {} |-> "none"]
    /\ responses = [id \in {} |-> DataResponse(<<>>)]
    /\ deadlinePassed = FALSE
    /\ text \in ParseTexts
    /\ parsed = NotParsed
    /\ OthersIdle

\* A call of parseSQLQueryWithVariables(text) returns (or panics).
Parse ==
    /\ parsed = NotParsed
    /\ parsed' = parseSQLQueryWithVariables(text)
    /\ UNCHANGED <<settings, reqLen, next, pc, cur, routed, responses,
                   deadlinePassed, text, otherCalls>>

ParseNext == Parse

ParseSpec == ParseInit /\ [][ParseNext]_vars

(***************************************************************************)
(* The native path from the return of GetAll on, step by step               *)
(* (executeWithNativeSDKForVariables, processGroupByQueryWithOrdering),    *)
(* over plans parsed from query texts and sequences of documents.          *)
(***************************************************************************)

\* The variables of a request, and those of a call of the parser.
requestVars == <<settings, reqLen, next, pc, cur, routed, responses, deadlinePassed>>
parserVars == <<text, parsed>>

\* No request is being processed and the parser is not called.
NoRequest ==
    /\ settings = [JSONok |-> TRUE, ProjectId |-> "test"]
    /\ reqLen = 1
    /\ next = 1
    /\ pc = "loop"
    /\ cur = NoQuery
    /\ routed = [id \in {} |-> "none"]
    /\ responses = [id \in {} |-> DataResponse(<<>>)]
    /\ deadlinePassed = FALSE
    /\ text = ""
    /\ parsed = NotParsed

ESum == "SELECT status, SUM(amt) as total FROM orders GROUP BY status ORDER BY total DESC"
EAvg == "select status, avg(amt) as mean from orders group by status"
ESumNoAlias == "select status, sum(amt) from orders group by status"
ECountTop == "select status, count(*) as n from orders group by status order by n desc limit 1"
ESumLeast == "select status, sum(amt) as total from orders group by status order by total limit 1"
EByStatus == "select status, count(*) as n from orders group by status order by status"
EByAmount == "select amt, count(*) as n from orders group by amt order by amt desc"
EStar == "select * from orders where status = 'open'"
ENested == "select status, amt from orders where client.brand == \"yoigo\" AND status = open"
ENumber == "select status, amt from orders where amt = 10"
EOpenSum == "select status, sum(amt) as total from orders where status = 'open' group by status"

EByPair == "select a, b, count(*) as n from orders group by a, b"
ETwoMatches == "select status, sum(amt) as count, count(*) as n from orders group by status order by count desc"
EFieldAndAlias == "select amt, sum(amt) as amt from orders group by amt order by amt"

EngineTexts ==
    {ESum, EAvg, ESumNoAlias, ECountTop, ESumLeast, EByStatus, EByAmount,
     EStar, ENested, ENumber, EOpenSum, EByPair, ETwoMatches, EFieldAndAlias}

\* Orders beside OrderA, OrderB and OrderC: an amount that is no number and
\* a nested mapping, no amount at all, an amount written as text.
OrderD == [status |-> StrVal("open"), amt |-> StrVal("n/a"),
           client |-> MapVal([brand |-> StrVal("yoigo")])]
OrderE == [status |-> StrVal("void"), client |-> StrVal("yoigo")]
OrderF == [status |-> StrVal("closed"), amt |-> StrVal("10"),
           client |-> MapVal([brand |-> StrVal("other")])]

\* Documents with two fields to group by: values that hold the character "|"
\* and values that differ in type only.
PairA == [a |-> StrVal("x|y"), b |-> StrVal("z")]
PairB == [a |-> StrVal("x"), b |-> StrVal("y|z")]
PairC == [a |-> StrVal("x"), b |-> StrVal("z")]
SevenN == [a |-> Int64Val(7), b |-> StrVal("k")]
SevenS == [a |-> StrVal("7"), b |-> StrVal("k")]

\* The document sequences GetAll returns.
EngineDocs ==
    {<<>>,
     <<PairA, PairC, PairB>>,
     <<SevenN, PairC, SevenS>>,
     <<PairC, SevenS, PairC>>,
     <<OrderA, OrderB, OrderC>>,
     <<OrderC, OrderB, OrderA>>,
     <<OrderA, OrderD, OrderE, OrderF>>,
     <<OrderE, OrderD>>,
     <<OrderE>>,
     <<OrderF, OrderA, OrderC, OrderE>>}

\* Queries without aggregation that filter and limit, over the users.
EIdTwo == "select id from users where id = 2 AND t >= $__from limit 1"
EIdOne == "select id from users where id = 1 AND t >= $__from limit 1"
EMail == "select id, email from users where email = 'c@x.io' limit 1"
EIdLast == "select id from users where id = 3 order by id desc limit 1"
EWindow == "select id, t from users where t >= $__from AND t <= $__to limit 2"

StoreTexts == {EIdTwo, EIdOne, EMail, EIdLast, EWindow}

\* The contents of the collection the store query runs over.
UserContents == {<<>>, <<UserA, UserB, UserC>>, <<UserC, UserA>>, <<UserB>>}

\* The plan of a query is about to be sent to the store as a query over the
\* window [TFrom, TTo].
QueryStates ==
    {[NoEngine EXCEPT !.stage = "querying",
                      !.info = parseSQLQueryWithVariables(q).info,
                      !.queried = TRUE, !.content = c] :
        q \in StoreTexts, c \in UserContents}

\* GetAll has returned the documents of a parsed query, or is about to be
\* called.
EngineInit ==
    /\ NoRequest
    /\ rewrite = NoRewrite
    /\ health = NoHealth
    /\ HelpersIdle
    /\ engine \in {[NoEngine EXCEPT !.stage = "fetched",
                                    !.info = parseSQLQueryWithVariables(q).info,
                                    !.fetched = d, !.docs = d] :
                      q \in EngineTexts, d \in EngineDocs}
                   \cup QueryStates

\* The store query is built and GetAll returns the documents that satisfy it.
GetAllReturns ==
    /\ engine.stage = "querying"
    /\ engine' = [engine EXCEPT
           !.stage = "fetched",
           !.fetched = StoreAnswer(engine.content,
                                   BuildStoreQuery(engine.info, TFrom, TTo)),
           !.docs = StoreAnswer(engine.content,
                                BuildStoreQuery(engine.info, TFrom, TTo))]
    /\ UNCHANGED <<requestVars, parserVars, rewrite, health, lookup, timed>>

\* GetAll fails: the error response.
GetAllFails ==
    /\ engine.stage = "querying"
    /\ engine' = [engine EXCEPT
           !.stage = "failed",
           !.response = ErrDataResponse("BadRequest", "Native query: unavailable")]
    /\ UNCHANGED <<requestVars, parserVars, rewrite, health, lookup, timed>>

\* The manual filtering of the native path, when the plan has filters.
FilterDocuments ==
    /\ engine.stage = "fetched"
    /\ engine' = [engine EXCEPT
           !.stage = "filtered",
           !.docs = IF Len(engine.info.AdditionalFilters) > 0
                    THEN applyManualFiltering(engine.fetched,
                                              engine.info.AdditionalFilters)
                    ELSE engine.fetched]
    /\ UNCHANGED <<requestVars, parserVars, rewrite, health, lookup, timed>>

\* A plan without aggregation: the documents are converted to a frame.
ConvertDocuments(starOrder) ==
    /\ engine.stage = "filtered"
    /\ ~IsAggregating(engine.info)
    /\ engine' = [engine EXCEPT
           !.stage = "done",
           !.response = convertFirestoreDocsToResponseWithFields(
                            engine.docs, engine.info, starOrder)]
    /\ UNCHANGED <<requestVars, parserVars, rewrite, health, lookup, timed>>

\* An aggregating plan and no documents: the empty frame.
AggregateNothing ==
    /\ engine.stage = "filtered"
    /\ IsAggregating(engine.info)
    /\ Len(engine.docs) = 0
    /\ engine' = [engine EXCEPT
           !.stage = "done",
           !.response = DataResponse(<<EmptyGroupFrame(engine.info)>>)]
    /\ UNCHANGED <<requestVars, parserVars, rewrite, health, lookup, timed>>

\* Steps 1 and 2: the documents are filtered again, grouped, and every group
\* aggregated, the groups map being iterated in the order groupOrder.
AggregateGroups(groupOrder) ==
    /\ engine.stage = "filtered"
    /\ IsAggregating(engine.info)
    /\ Len(engine.docs) > 0
    /\ engine' = [engine EXCEPT
           !.stage = "aggregated",
           !.groups = GroupsOf(applyManualFiltering(engine.docs,
                                                    engine.info.AdditionalFilters),
                               engine.info, groupOrder),
           !.results = GroupResults(
                           applyManualFiltering(engine.docs,
                                                engine.info.AdditionalFilters),
                           engine.info, groupOrder)]
    /\ UNCHANGED <<requestVars, parserVars, rewrite, health, lookup, timed>>

\* Step 3: ORDER BY.
SortResults ==
    /\ engine.stage = "aggregated"
    /\ engine' = [engine EXCEPT
           !.stage = "sorted",
           !.sorted = ApplyOrderBy(engine.info, engine.results),
           !.results = ApplyOrderBy(engine.info, engine.results)]
    /\ UNCHANGED <<requestVars, parserVars, rewrite, health, lookup, timed>>

\* Step 4: LIMIT.
LimitResults ==
    /\ engine.stage = "sorted"
    /\ engine' = [engine EXCEPT
           !.stage = "limited",
           !.results = ApplyLimit(engine.info, engine.results)]
    /\ UNCHANGED <<requestVars, parserVars, rewrite, health, lookup, timed>>

\* Step 5: the frame.
FrameResults ==
    /\ engine.stage = "limited"
    /\ engine' = [engine EXCEPT
           !.stage = "done",
           !.response = DataResponse(<<ResultsFrame(engine.info, engine.results)>>)]
    /\ UNCHANGED <<requestVars, parserVars, rewrite, health, lookup, timed>>

Convert == \E starOrder \in Orders(AllFieldNames(engine.docs)) : ConvertDocuments(starOrder)

Aggregate == \E groupOrder \in Orders(GroupKeys(engine.docs, engine.info)) : AggregateGroups(groupOrder)

EngineNext ==
    \/ GetAllReturns
    \/ GetAllFails
    \/ FilterDocuments
    \/ Convert
    \/ AggregateNothing
    \/ Aggregate
    \/ SortResults
    \/ LimitResults
    \/ FrameResults

EngineSpec == EngineInit /\ [][EngineNext]_vars

(***************************************************************************)
(* The query-rewriting functions addTimeRangeFilter and                    *)
(* replaceGrafanaVariables.  A time is 0, the zero time, or the second of  *)
(* 2006-01-02 15:04 UTC with that number.                                  *)
(***************************************************************************)

TwoDigits(n) == IF n < 10 THEN "0" \o ToString(n) ELSE ToString(n)

\* fmt.Sprintf("%d", t.UnixMilli())
UnixMilli(t) ==
    IF t = 0 THEN "-62135596800000" ELSE ToString(1136214240 + t) \o "000"

\* t.Format(time.RFC3339)
FormatRFC3339(t) ==
    IF t = 0 THEN "0001-01-01T00:00:00Z"
    ELSE "2006-01-02T15:04:" \o TwoDigits(t) \o "Z"

RECURSIVE ReplaceAll(_, _, _)
ReplacedAt(s, old, new, idx) ==
    IF idx = -1 THEN s
    ELSE Slice(s, 0, idx) \o new
         \o ReplaceAll(Slice(s, idx + Len(old), Len(s)), old, new)

\* strings.ReplaceAll for a non-empty old
ReplaceAll(s, old, new) == ReplacedAt(s, old, new, Index(s, old))

\* replaceGrafanaVariables
replaceGrafanaVariables(sqlQuery, from, to) ==
    ReplaceAll(ReplaceAll(sqlQuery, "$__from", UnixMilli(from)), "$__to", UnixMilli(to))

\* The position where addTimeRangeFilter inserts a new WHERE clause: the
\* least index of " order by ", " limit " and " group by ", else the end.
InsertPos(queryLower) ==
    LoweredTo(Index(queryLower, " group by "),
        LoweredTo(Index(queryLower, " limit "),
            LoweredTo(Index(queryLower, " order by "), Len(queryLower))))

\* fmt.Sprintf("%s >= %d and %s <= %d", timeField, fromMillis, timeField, toMillis)
TimeFilter(timeField, from, to) ==
    timeField \o " >= " \o UnixMilli(from) \o " and " \o timeField \o " <= "
        \o UnixMilli(to)

\* addTimeRangeFilter
addTimeRangeFilter(sqlQuery, timeField, from, to) ==
    IF Contains(ToLower(sqlQuery), " where ")
    THEN sqlQuery \o " and " \o TimeFilter(timeField, from, to)
    ELSE Slice(sqlQuery, 0, InsertPos(ToLower(sqlQuery)))
         \o " where " \o TimeFilter(timeField, from, to)
         \o Slice(sqlQuery, InsertPos(ToLower(sqlQuery)), Len(sqlQuery))

\* The queries a time-range filter is added to.
FilterQueries ==
    {"SELECT * FROM users",
     "SELECT * FROM users WHERE status = 'active'",
     "SELECT * FROM users ORDER BY name",
     "SELECT * FROM users LIMIT 10",
     "SELECT * FROM users WHERE active = true ORDER BY name LIMIT 5",
     "select status from orders group by status",
     "select status from orders where amt = 10 group by status",
     "select a from x where b = 1 limit 5"}

TimeFields == {"createdAt", "t"}

\* The queries whose variables are replaced.
VariableQueries ==
    {"SELECT * FROM events WHERE timestamp >= $__from",
     "SELECT * FROM events WHERE timestamp <= $__to",
     "SELECT * FROM events WHERE timestamp >= $__from AND timestamp <= $__to",
     "SELECT * FROM events WHERE type = 'error' AND createdAt BETWEEN $__from AND $__to ORDER BY createdAt",
     "SELECT * FROM events WHERE type = 'error'",
     "select a from x where t >= $__from and u >= $__from",
     "select a from x"}

\* The time ranges of the calls.
TimeRanges == {<<TFrom, TTo>>, <<0, TTo>>, <<TFrom, TFrom>>}

RewriteCalls ==
    {[NoRewrite EXCEPT !.fn = "addTimeRangeFilter", !.query = q, !.timeField = f,
                       !.from = r[1], !.to = r[2]] :
        q \in FilterQueries, f \in TimeFields, r \in TimeRanges}
    \cup
    {[NoRewrite EXCEPT !.fn = "replaceGrafanaVariables", !.query = q,
                       !.from = r[1], !.to = r[2]] :
        q \in VariableQueries, r \in TimeRanges}

\* One of the two functions has been called.
RewriteInit ==
    /\ NoRequest
    /\ engine = NoEngine
    /\ health = NoHealth
    /\ HelpersIdle
    /\ rewrite \in RewriteCalls

\* addTimeRangeFilter returns.
AddTimeRangeFilterReturns ==
    /\ rewrite.fn = "addTimeRangeFilter"
    /\ ~rewrite.returned
    /\ rewrite' = [rewrite EXCEPT
           !.returned = TRUE,
           !.out = addTimeRangeFilter(rewrite.query, rewrite.timeField,
                                      rewrite.from, rewrite.to)]
    /\ UNCHANGED <<requestVars, parserVars, engine, health, lookup, timed>>

\* replaceGrafanaVariables returns.
ReplaceGrafanaVariablesReturns ==
    /\ rewrite.fn = "replaceGrafanaVariables"
    /\ ~rewrite.returned
    /\ rewrite' = [rewrite EXCEPT
           !.returned = TRUE,
           !.out = replaceGrafanaVariables(rewrite.query, rewrite.from, rewrite.to)]
    /\ UNCHANGED <<requestVars, parserVars, engine, health, lookup, timed>>

RewriteNext == AddTimeRangeFilterReturns \/ ReplaceGrafanaVariablesReturns

RewriteSpec == RewriteInit /\ [][RewriteNext]_vars

(***************************************************************************)
(* CheckHealth, called while the datasource serves a request of one query: *)
(* both read the settings of the datasource instance.                      *)
(***************************************************************************)

ValidAccount == "{\"type\": \"service_account\"}"

\* The serviceAccount entries of the decrypted settings: none, a text that
\* is no JSON, a JSON text that holds no credentials, credentials.
ServiceAccounts == {"", "test", "{}", ValidAccount}

\* json.Valid, over the service accounts above: an object in braces.
JSONValid(s) == s # "" /\ Head(s) = "{" /\ CharAt(s, Len(s) - 1) = "}"

\* google.CredentialsFromJSON succeeds: the object names its type.
CredentialsOK(s) == Contains(s, "\"type\"")

\* newFirestoreClient: the text of the error it returns, "" when it returns
\* a client; newClientFails says that firestore.NewClient returns an error.
newFirestoreClient(instanceSettings, serviceAccount, newClientFails) ==
    IF ~instanceSettings.JSONok THEN "ProjectID: unexpected end of JSON input"
    ELSE IF instanceSettings.ProjectId = "" THEN "project Id is required"
    ELSE IF serviceAccount # "" /\ ~JSONValid(serviceAccount)
         THEN "invalid service account, it is expected to be a JSON"
    ELSE IF serviceAccount # "" /\ ~CredentialsOK(serviceAccount)
         THEN "ServiceAccount: missing 'type' field in credentials"
    ELSE IF newClientFails THEN "firestore.NewClient: no default credentials"
    ELSE ""

\* CheckHealth has been called; a request of one query is being served.
HealthInit ==
    /\ RequestInit
    /\ reqLen = 1
    /\ text = ""
    /\ parsed = NotParsed
    /\ engine = NoEngine
    /\ rewrite = NoRewrite
    /\ HelpersIdle
    /\ health \in {[NoHealth EXCEPT !.pc = "start", !.serviceAccount = sa] :
                      sa \in ServiceAccounts}

\* The result CheckHealth returns for an error, or for none ("").
HealthResult(healthErr) ==
    IF healthErr # "" THEN [status |-> "ERROR", message |-> healthErr]
    ELSE [status |-> "OK", message |-> "Data source is working"]

HealthAfterClient(healthErr) ==
    IF healthErr # ""
    THEN [health EXCEPT !.pc = "done",
                        !.status = HealthResult(healthErr).status,
                        !.message = HealthResult(healthErr).message]
    ELSE [health EXCEPT !.pc = "listing"]

\* newFirestoreClient returns to CheckHealth: with an error the result is
\* returned, with a client collections.Next() is called.
HealthClientReturns(newClientFails) ==
    /\ health.pc = "start"
    /\ health' = HealthAfterClient(
                     newFirestoreClient(settings, health.serviceAccount, newClientFails))
    /\ UNCHANGED <<requestVars, parserVars, engine, rewrite, lookup, timed>>

\* collections.Next() returns a collection, iterator.Done or another error.
\* With iterator.Done the collection is nil, and logging collection.ID
\* dereferences it: a panic that CheckHealth does not recover.
HealthListingReturns(outcome) ==
    /\ health.pc = "listing"
    /\ health' =
           CASE outcome = "collection" ->
                    [health EXCEPT !.pc = "done", !.listed = outcome,
                                   !.status = HealthResult("").status,
                                   !.message = HealthResult("").message]
             [] outcome = "done" ->
                    [health EXCEPT !.pc = "crashed", !.listed = outcome]
             [] OTHER ->
                    [health EXCEPT
                        !.pc = "done", !.listed = outcome,
                        !.status = HealthResult("firestore.Collections: unavailable").status,
                        !.message = HealthResult("firestore.Collections: unavailable").message]
    /\ UNCHANGED <<requestVars, parserVars, engine, rewrite, lookup, timed>>

HealthClient == \E newClientFails \in BOOLEAN : HealthClientReturns(newClientFails)

HealthListing == \E outcome \in {"collection", "done", "error"} : HealthListingReturns(outcome)

HealthNext == Next \/ HealthClient \/ HealthListing

HealthSpec == HealthInit /\ [][HealthNext]_vars

(***************************************************************************)
(* getNestedFieldValue on its own: applied to a document and a field path.  *)
(***************************************************************************)

\* Documents with mappings nested up to four deep, with intermediate values
\* that are missing or are no mappings.
DeepA == [a |-> MapVal([b |-> MapVal([c |-> Int64Val(7)])]), id |-> Int64Val(1)]
DeepB == [a |-> MapVal([b |-> StrVal("leaf")])]
DeepC == [a |-> StrVal("flat"), b |-> MapVal([c |-> StrVal("x")])]
DeepD == [b |-> MapVal([c |-> StrVal("x")])]
DeepE == [a |-> MapVal([b |-> MapVal([c |-> MapVal([brand |-> StrVal("yoigo")])])])]
DeepF == [a |-> MapVal([b |-> MapVal([a |-> Int64Val(3)]), c |-> Int64Val(1)])]

LookupDocs == {DeepA, DeepB, DeepC, DeepD, DeepE, DeepF, OrderD, OrderE, UserA}

LookupPaths ==
    {"a", "id", "a.b", "b.c", "a.c", "client.brand", "a.b.c", "a.b.a", "id.a.b",
     "a.b.c.brand", "a.b.c.brand.id", "a..c"}

\* getNestedFieldValue has been called.
LookupInit ==
    /\ NoRequest
    /\ text = ""
    /\ parsed = NotParsed
    /\ engine = NoEngine
    /\ rewrite = NoRewrite
    /\ health = NoHealth
    /\ timed = NoTimed
    /\ lookup \in {[NoLookup EXCEPT !.doc = d, !.path = p] :
                      d \in LookupDocs, p \in LookupPaths}

\* getNestedFieldValue returns.
GetNestedFieldValueReturns ==
    /\ ~lookup.returned
    /\ lookup' = [lookup EXCEPT
           !.returned = TRUE,
           !.value = getNestedFieldValue(lookup.doc, lookup.path)]
    /\ UNCHANGED <<requestVars, parserVars, engine, rewrite, health, timed>>

LookupNext == GetNestedFieldValueReturns

LookupSpec == LookupInit /\ [][LookupNext]_vars

(***************************************************************************)
(* executeWithTimeout: the caller waits in a select for the result channel, *)
(* the error channel or the end of the context, while a goroutine (the      *)
(* worker) calls fQuery.Execute and sends what it returned.                 *)
(***************************************************************************)

\* The capacity of resultChan and of errorChan.
ChanCap == 1

\* What the worker holds after Execute returned o.
ExecutedOutcome(o) ==
    IF o.err # ""
    THEN [NoOutcome EXCEPT !.kind = "error", !.err = o.err]
    ELSE [kind |-> "result", err |-> "", isNil |-> o.isNil, result |-> o.result]

\* The error the deferred function makes of a recovered panic.
PanicOutcome ==
    [NoOutcome EXCEPT !.kind = "error",
                      !.err = "query execution panic: runtime error"]

\* The error the caller returns when the context ends first.
TimeoutOutcome ==
    [NoOutcome EXCEPT !.kind = "timeout",
                      !.err = "query execution timeout after 30 seconds"]

\* The queries executeWithTimeout is called with.
TimedQueries == {QPlain, QUpperVars}

\* The channels are made, the worker is started and the caller waits in the
\* select; the context may end before anything else happens.
TimedInit ==
    /\ NoRequest
    /\ text = ""
    /\ parsed = NotParsed
    /\ engine = NoEngine
    /\ rewrite = NoRewrite
    /\ health = NoHealth
    /\ lookup = NoLookup
    /\ timed \in {[NoTimed EXCEPT !.query = q, !.worker = "executing",
                                  !.caller = "select"] : q \in TimedQueries}

\* fQuery.Execute returns a result or an error to the worker.
ExecuteReturns(o) ==
    /\ timed.worker = "executing"
    /\ timed' = [timed EXCEPT
           !.worker = IF o.err # "" THEN "sendError" ELSE "sendResult",
           !.executed = ExecutedOutcome(o)]
    /\ UNCHANGED <<requestVars, parserVars, engine, rewrite, health, lookup>>

\* fQuery.Execute panics: the deferred function of the worker runs.
ExecutePanics ==
    /\ timed.worker = "executing"
    /\ timed' = [timed EXCEPT !.worker = "recovering",
                              !.executed = [NoOutcome EXCEPT !.kind = "panic"]]
    /\ UNCHANGED <<requestVars, parserVars, engine, rewrite, health, lookup>>

\* The deferred function recovers the panic and makes an error of it.
Recover ==
    /\ timed.worker = "recovering"
    /\ timed' = [timed EXCEPT !.worker = "sendError", !.executed = PanicOutcome]
    /\ UNCHANGED <<requestVars, parserVars, engine, rewrite, health, lookup>>

\* A worker that sends the result and is about to send it again.
SendResultAgain ==
    /\ timed.worker = "sendResult"
    /\ Len(timed.resultChan) < ChanCap
    /\ timed' = [timed EXCEPT
           !.resultChan = Append(timed.resultChan, timed.executed),
           !.sends = timed.sends + 1]
    /\ UNCHANGED <<requestVars, parserVars, engine, rewrite, health, lookup>>

\* resultChan <- result: possible while the channel has room; the worker ends.
SendResult ==
    /\ timed.worker = "sendResult"
    /\ Len(timed.resultChan) < ChanCap
    /\ timed' = [timed EXCEPT
           !.worker = "done",
           !.resultChan = Append(timed.resultChan, timed.executed),
           !.sends = timed.sends + 1]
    /\ UNCHANGED <<requestVars, parserVars, engine, rewrite, health, lookup>>

\* errorChan <- err: possible while the channel has room; the worker ends.
SendError ==
    /\ timed.worker = "sendError"
    /\ Len(timed.errorChan) < ChanCap
    /\ timed' = [timed EXCEPT
           !.worker = "done",
           !.errorChan = Append(timed.errorChan, timed.executed),
           !.sends = timed.sends + 1]
    /\ UNCHANGED <<requestVars, parserVars, engine, rewrite, health, lookup>>

\* case result := <-resultChan: the caller returns the result.
ReceiveResult ==
    /\ timed.caller = "select"
    /\ timed.resultChan # <<>>
    /\ timed' = [timed EXCEPT
           !.caller = "returned",
           !.returned = Head(timed.resultChan),
           !.resultChan = Tail(timed.resultChan)]
    /\ UNCHANGED <<requestVars, parserVars, engine, rewrite, health, lookup>>

\* case err := <-errorChan: the caller returns the error.
ReceiveError ==
    /\ timed.caller = "select"
    /\ timed.errorChan # <<>>
    /\ timed' = [timed EXCEPT
           !.caller = "returned",
           !.returned = Head(timed.errorChan),
           !.errorChan = Tail(timed.errorChan)]
    /\ UNCHANGED <<requestVars, parserVars, engine, rewrite, health, lookup>>

\* case <-ctx.Done(): the caller returns the timeout error.
ContextDone ==
    /\ timed.caller = "select"
    /\ timed.ctxDone
    /\ timed' = [timed EXCEPT !.caller = "returned", !.returned = TimeoutOutcome]
    /\ UNCHANGED <<requestVars, parserVars, engine, rewrite, health, lookup>>

\* The context ends: its deadline passes or it is cancelled.
ContextEnds ==
    /\ ~timed.ctxDone
    /\ timed' = [timed EXCEPT !.ctxDone = TRUE]
    /\ UNCHANGED <<requestVars, parserVars, engine, rewrite, health, lookup>>

ExecuteEnds == (\E o \in LibOutcomes : ExecuteReturns(o)) \/ ExecutePanics

WorkerStep == ExecuteEnds \/ Recover \/ SendResult \/ SendError

CallerStep == ReceiveResult \/ ReceiveError \/ ContextDone

TimedNext == WorkerStep \/ CallerStep \/ ContextEnds

TimedSpec == TimedInit /\ [][TimedNext]_vars

\* The scheduler runs a goroutine that can take a step: a worker whose call
\* has ended goes on, a caller with a ready case of its select takes one.
\* Nothing makes fQuery.Execute return.
FairTimedSpec ==
    /\ TimedSpec
    /\ WF_vars(Recover)
    /\ WF_vars(SendResult)
    /\ WF_vars(SendError)
    /\ WF_vars(CallerStep)

(***************************************************************************)
(* Properties.                                                             *)
(***************************************************************************)

ReferencesTimeVariable(queryText) ==
    Contains(queryText, "$__from") \/ Contains(queryText, "$__to")

MentionsGroupBy(queryText) == Contains(ToLower(queryText), "group by")

NonZeroWindow(from, to) == from # 0 /\ to # 0

\* The routing rule of C1.
NativeByRule(queryText, from, to) ==
    \/ ReferencesTimeVariable(queryText) /\ NonZeroWindow(from, to)
    \/ MentionsGroupBy(queryText)

\* The query being processed has been routed: to the library's Execute, or
\* to executeWithNativeSDKForVariables.
Delegated == pc = "fireql"

OnNativePath == pc \in {"client", "store"}

\* C1: a non-empty query goes to the native path if and only if (its text
\* contains $__from or $__to and both ends of the time range are non-zero) or
\* its lower-cased text contains "group by"; every other non-empty query is
\* handed to the library's Execute with the query text unmodified.
C1_RoutingRule ==
    /\ OnNativePath => /\ NativeByRule(cur.Query, cur.From, cur.To)
                       /\ routed[cur.RefID] = "native"
    /\ Delegated => /\ ~NativeByRule(cur.Query, cur.From, cur.To)
                    /\ routed[cur.RefID] = "fireql"
                    /\ cur.sent = cur.Query

\* A request whose first query was delegated and whose second query, a GROUP
\* BY query without time variables, is on the native path.
C1_Witness ==
    /\ pc = "store"
    /\ cur.Query = QGroup
    /\ "ref0" \in DOMAIN routed
    /\ routed["ref0"] = "fireql"
    /\ routed[cur.RefID] = "native"

\* C2 (as stated): every query that references $__from or $__to goes to the
\* native path with a non-zero time window and to the delegated path with a
\* zero-valued one.
C2_WindowDecides ==
    ((Delegated \/ OnNativePath) /\ ReferencesTimeVariable(cur.Query)) =>
        (OnNativePath <=> NonZeroWindow(cur.From, cur.To))

\* C2 (amended): every query that references $__from or $__to and whose
\* lower-cased text does not contain "group by" goes to the native path with a
\* non-zero time window and to the delegated path with a zero-valued one; a
\* query that contains "group by" goes to the native path in both cases.
C2_WindowDecidesWithoutGroupBy ==
    ((Delegated \/ OnNativePath) /\ ReferencesTimeVariable(cur.Query)) =>
        (OnNativePath <=> (NonZeroWindow(cur.From, cur.To) \/ MentionsGroupBy(cur.Query)))

\* A query that references a time variable is delegated under a window with
\* a zero end, after the first query of the request went native.
C2_Witness ==
    /\ pc = "fireql"
    /\ ReferencesTimeVariable(cur.Query)
    /\ ~MentionsGroupBy(cur.Query)
    /\ cur.From = 0 \/ cur.To = 0
    /\ cur.RefID = "ref1"
    /\ routed["ref0"] = "native"

\* C3 (as stated): a delegated query still produces a response when the
\* library call does not return: once Execute is pending, the query is
\* eventually answered, the 30-second deadline seeing to it.
C3_DelegatedQueryIsAnswered == (pc = "fireql") ~> (pc # "fireql")

\* The library outcomes whose conversion panics.
PanickingOutcomes == {o \in LibOutcomes : FireqlResponseOf(o).panic}

\* The step completes a query whose processing panicked.
PanicStep ==
    \/ \E o \in PanickingOutcomes : FireqlReturn(o)
    \/ pc = "client" /\ PlanOf(cur.Query).kind = "panic" /\ ParseFails

\* C4: QueryData returns a response map with one entry for each query RefID;
\* a panic raised while processing one query becomes the StatusInternal
\* "internal server error" response of that query alone, the entries of the
\* other queries stay as they are and the loop goes on to the next query.
C4_PanicIsContained ==
    /\ [](pc # "crashed")
    /\ [](pc = "done" => DOMAIN responses = {RefIDOf(i) : i \in 1..reqLen})
    /\ [][PanicStep =>
            /\ pc' = "loop"
            /\ next' = next + 1
            /\ responses'[RefIDOf(next)] =
                   ErrDataResponse("Internal", "internal server error")
            /\ \A id \in DOMAIN responses : responses'[id] = responses[id]]_vars

\* A finished request of two queries: the first panicked and has the
\* internal-error response, the second was answered with a frame.
C4_Witness ==
    /\ pc = "done"
    /\ reqLen = 2
    /\ responses["ref0"] = ErrDataResponse("Internal", "internal server error")
    /\ responses["ref1"].Status = "OK"
    /\ Len(responses["ref1"].Frames) = 1

\* C5 (as stated): for an aggregating plan the store query carries no
\* ordering and no limit, so that neither ORDER BY nor LIMIT is applied to the
\* documents retrieved from the store; LIMIT only truncates the aggregated
\* results.
C5_NoOrderNoLimitBeforeAggregation ==
    (pc = "store" /\ IsAggregating(cur.info)) =>
        /\ cur.storeQuery.OrderField = ""
        /\ cur.storeQuery.Limit = 0

\* Whether all the columns of a frame have the same length.
EqualColumns(frame) ==
    \A i, j \in 1..Len(frame.Fields) :
        Len(frame.Fields[i].Values) = Len(frame.Fields[j].Values)

\* C6 (as stated): every frame of a successful query, on the delegated path,
\* the native non-aggregating path and the aggregating path alike, has all of
\* its columns of the same length, also when some rows hold a nil or missing
\* value for a column.
C6_ColumnsOfEqualLength ==
    \A id \in DOMAIN responses :
        \A k \in 1..Len(responses[id].Frames) : EqualColumns(responses[id].Frames[k])

\* The names of the fields of a frame, in order.
FieldNames(frame) == [idx \in 1..Len(frame.Fields) |-> frame.Fields[idx].Name]

\* C7 (as stated): on the delegated path the response is the library's result
\* untouched apart from truncation to the first 10,000 records: one frame with
\* exactly the library's columns, in the library's order and under the
\* library's column names, each column holding one value per record kept; more
\* than 10,000 records is not an error.
C7_LibraryResultUntouched ==
    [][\A o \in LibOutcomes \cup {LargeOutcome} :
          (o.err = "" /\ ~o.isNil /\ FireqlReturn(o)) =>
              /\ responses'[cur.RefID].Status = "OK"
              /\ Len(responses'[cur.RefID].Frames) = 1
              /\ FieldNames(responses'[cur.RefID].Frames[1]) = o.result.Columns
              /\ \A idx \in 1..Len(o.result.Columns) :
                     Len(responses'[cur.RefID].Frames[1].Fields[idx].Values)
                         = Len(TruncateRecords(o.result.Records))]_vars

\* "select " or " from " is not found in the lower-cased, trimmed query text.
MissingSelectOrFrom(queryText) ==
    \/ ~Contains(ToLower(TrimSpace(queryText)), "select ")
    \/ ~Contains(ToLower(TrimSpace(queryText)), " from ")

\* C8 (as stated): parseSQLQueryWithVariables is total: for every query text
\* it returns a plan or fails with the error "missing SELECT or FROM", never
\* with a runtime fault; it fails exactly when "select " or " from " is not
\* found, every other malformation still yielding a plan.
C8_ParserIsTotal ==
    parsed # NotParsed =>
        /\ parsed.kind \in {"plan", "error"}
        /\ parsed.kind = "error" <=> MissingSelectOrFrom(text)
        /\ parsed.kind = "error" => Contains(parsed.err, "missing SELECT or FROM")

\* The query texts of the form SELECT <fields> FROM <collection> [WHERE ...]
\* [GROUP BY ...] [ORDER BY ...] [LIMIT n] with a field list, the clauses
\* separated by spaces, newlines or tabs.
WellFormedTexts ==
    {Assembled(t[1], t[2], t[3], t[4], t[5], t[6], t[7]) :
        t \in (Heads \ {"select"}) \X Separators \X Froms \X Wheres \X GroupBys
                  \X OrderBys \X Limits}

\* The position of the first token that is the keyword FROM.
FromPosition(tokens) == MinOf({k \in 1..Len(tokens) : ToLower(tokens[k]) = "from"})

\* The first whitespace-delimited token that follows FROM.
TokenAfterFrom(queryText) == Fields(queryText)[FromPosition(Fields(queryText)) + 1]

\* C9 (as stated): for every query of the form SELECT <fields> FROM
\* <collection> [WHERE ...] [GROUP BY ...] [ORDER BY ...] [LIMIT n], in any
\* keyword case and with the clauses separated by spaces, newlines or tabs,
\* the parsed Collection is the first whitespace-delimited token after FROM.
C9_CollectionIsTokenAfterFrom ==
    (parsed # NotParsed /\ text \in WellFormedTexts) =>
        /\ parsed.kind = "plan"
        /\ parsed.info.Collection = TokenAfterFrom(text)

\* The elements of a sequence.
Range(seq) == {seq[k] : k \in 1..Len(seq)}

\* The entries of the SELECT list of a query text: what stands between the
\* keywords SELECT and FROM, split at the commas.
SelectEntries(queryText) ==
    {TrimSpace(e) : e \in Range(Split(Slice(queryText, 6,
                                         Index(ToLower(queryText), "from")), ","))}

\* What C10 expects of the example query besides Fields.
ExampleAggregation(queryInfo) ==
    /\ queryInfo.AggregateFields = <<[Function |-> "COUNT", Field |-> "*", Alias |-> "total"]>>
    /\ queryInfo.GroupByFields = <<"status">>
    /\ queryInfo.OrderField = "total"
    /\ queryInfo.OrderDirection = "DESC"

\* C10 (as stated): parsing the example query yields Fields = [],
\* AggregateFields = [{COUNT, *, total}], GroupByFields = [status],
\* OrderField = total, OrderDirection = DESC; a SELECT field that is also a
\* GROUP BY field is not listed in Fields of an aggregating plan.
C10_GroupFieldNotInFields ==
    parsed.kind = "plan" =>
        /\ text = QGroup => parsed.info.Fields = <<>> /\ ExampleAggregation(parsed.info)
        /\ \A g \in Range(parsed.info.GroupByFields) :
               g \in SelectEntries(text) => g \notin Range(parsed.info.Fields)

\* C10 (amended): parsing the example query yields Fields = [status],
\* AggregateFields = [{COUNT, *, total}], GroupByFields = [status],
\* OrderField = total, OrderDirection = DESC; a SELECT field that is also a
\* GROUP BY field is listed in Fields of the plan like every other
\* non-aggregate SELECT field.
C10_GroupFieldKeptInFields ==
    parsed.kind = "plan" =>
        /\ text = QGroup =>
               parsed.info.Fields = <<"status">> /\ ExampleAggregation(parsed.info)
        /\ \A g \in Range(parsed.info.GroupByFields) :
               g \in SelectEntries(text) => g \in Range(parsed.info.Fields)

\* The example query has been parsed into a plan.
C10_Witness ==
    /\ text = QGroup
    /\ parsed.kind = "plan"
    /\ parsed.info.GroupByFields = <<"status">>


\* The value a path of field names leads to from a value: each name but the
\* last must lead to a mapping that has the next name; nil otherwise.
RECURSIVE ResolvedAt(_, _)
ResolvedAt(value, names) ==
    IF names = <<>> THEN value
    ELSE IF value.t = "map" /\ Head(names) \in DOMAIN value.m
         THEN ResolvedAt(value.m[Head(names)], Tail(names))
         ELSE Nil

\* A filter holds for a document: its dotted field resolves to a value that
\* is not nil and renders as the filter's value.
FilterHolds(docData, filter) ==
    /\ ResolvedAt(MapVal(docData), Split(filter.Field, ".")).t # "nil"
    /\ Render(ResolvedAt(MapVal(docData), Split(filter.Field, "."))) = filter.Value

\* The documents, in their order, for which every filter holds.
Matching(docs, filters) ==
    SelectSeq(docs, LAMBDA docData :
                        \A i \in 1..Len(filters) : FilterHolds(docData, filters[i]))

\* C11: once the manual filtering has run, the documents that go on are
\* exactly the fetched documents for which every filter of the plan holds, in
\* their original order; a document with a missing field or a missing
\* intermediate mapping is not among them.
C11_FilterKeepsMatchingDocuments ==
    engine.stage \notin {"idle", "fetched"} =>
        engine.docs = Matching(engine.fetched, engine.info.AdditionalFilters)

\* Two filters, one on a nested field: of four documents only the one with
\* client.brand = yoigo and status = open goes on.
C11_Witness ==
    /\ engine.stage = "filtered"
    /\ Len(engine.info.AdditionalFilters) = 2
    /\ engine.fetched = <<OrderA, OrderD, OrderE, OrderF>>
    /\ engine.docs = <<OrderD>>

\* The members of the group of a result among the filtered documents.
MembersOf(result) ==
    SelectSeq(engine.docs, LAMBDA docData :
        \A i \in 1..Len(engine.info.GroupByFields) :
            Render(getNestedFieldValue(docData, engine.info.GroupByFields[i]))
                = Render(result.GroupValues[i]))

\* value is 0.0 when there are no values, else their sum divided by their
\* number (value * number = sum).
IsAverageOf(value, vals) ==
    IF Len(vals) = 0 THEN value = FloatZero
    ELSE value.n * FloatSum(vals).d * Len(vals) = FloatSum(vals).n * value.d

\* C12: every AVG of an aggregated result is 0.0 when no member of the group
\* has a float-coercible value of the field, and else the sum of the
\* coercible values divided by their number.
C12_AverageOfCoercibleValues ==
    engine.stage \in {"aggregated", "sorted", "limited"} =>
        \A k \in 1..Len(engine.results) :
            \A j \in 1..Len(engine.info.AggregateFields) :
                engine.info.AggregateFields[j].Function = "AVG" =>
                    IsAverageOf(engine.results[k].AggregateValues[j],
                                CoercedValues(MembersOf(engine.results[k]),
                                              engine.info.AggregateFields[j].Field))

\* A group without a coercible amount averages to 0.0 beside a group that
\* averages 10 and 5 to 7.5.
C12_Witness ==
    /\ engine.stage = "aggregated"
    /\ Len(engine.info.AggregateFields) = 1
    /\ engine.info.AggregateFields[1].Function = "AVG"
    /\ \E k \in 1..Len(engine.results) :
           /\ Len(MembersOf(engine.results[k])) > 0
           /\ CoercedValues(MembersOf(engine.results[k]), "amt") = <<>>
           /\ engine.results[k].AggregateValues[1] = FloatZero
    /\ \E k \in 1..Len(engine.results) :
           engine.results[k].AggregateValues[1] = Float(15, 2)


\* A plan of the form SELECT g, SUM(f) as total ... GROUP BY g ORDER BY total
\* DESC, without LIMIT.
SumDescending(queryInfo) ==
    /\ Len(queryInfo.GroupByFields) = 1
    /\ Len(queryInfo.AggregateFields) = 1
    /\ queryInfo.AggregateFields[1].Function = "SUM"
    /\ queryInfo.OrderField = queryInfo.AggregateFields[1].Alias
    /\ queryInfo.OrderDirection = "DESC"
    /\ queryInfo.Limit = 0

\* The values of a column of the frame the native path has built.
ColumnValues(idx) == engine.response.Frames[1].Fields[idx].Values

\* The filtered documents whose group field renders as key.
DocsOfKey(key) ==
    SelectSeq(engine.docs, LAMBDA docData :
        Render(getNestedFieldValue(docData, engine.info.GroupByFields[1])) = key)

InSortOrder(results, direction) ==
    \A i, j \in 1..Len(results) :
        i < j => IF direction = "DESC"
                 THEN ~FloatLess(results[i].SortValue, results[j].SortValue)
                 ELSE ~FloatLess(results[j].SortValue, results[i].SortValue)

\* C14: the results after LIMIT are the first Limit results of the sorted
\* sequence when 0 < Limit < their number, and the whole sorted sequence
\* otherwise; with ORDER BY the sorted sequence is in the order of the sort
\* values, so LIMIT 1 keeps the highest for DESC and the lowest for ASC; the
\* frame has one row per result kept.
C14_LimitAfterSort ==
    (engine.stage \in {"limited", "done"} /\ Len(engine.sorted) > 0) =>
        /\ engine.results =
               IF 0 < engine.info.Limit /\ engine.info.Limit < Len(engine.sorted)
               THEN SubSeq(engine.sorted, 1, engine.info.Limit)
               ELSE engine.sorted
        /\ engine.info.OrderField # "" =>
               InSortOrder(engine.sorted, engine.info.OrderDirection)
        /\ engine.stage = "done" =>
               \A idx \in 1..Len(engine.response.Frames[1].Fields) :
                   Len(ColumnValues(idx)) = Len(engine.results)

\* LIMIT 1 over three groups sorted by their count, descending: the one
\* result kept is the group of two documents.
C14_Witness ==
    /\ engine.stage = "limited"
    /\ engine.info.Limit = 1
    /\ engine.info.OrderDirection = "DESC"
    /\ Len(engine.sorted) = 3
    /\ Len(engine.results) = 1
    /\ engine.results[1].SortValue = Float(2, 1)
    /\ engine.results[1].GroupValues = <<StrVal("closed")>>

\* The frame a plan gives when zero documents are retrieved.
ZeroDocumentsFrame(queryInfo) ==
    IF IsAggregating(queryInfo) THEN EmptyGroupFrame(queryInfo)
    ELSE EmptyFieldsFrame(queryInfo)

\* C15: the frame built from retrieved documents has the same columns, in
\* number and names, as the frame the plan gives for zero documents.
C15_SameColumnsWhenEmpty ==
    (engine.stage = "done" /\ Len(engine.fetched) > 0) =>
        FieldNames(engine.response.Frames[1])
            = FieldNames(ZeroDocumentsFrame(engine.info))

\* The order of two values: as numbers when both are float-coercible, else
\* as their renderings.
ValueLess(x, y) ==
    IF CoercesValue(x) /\ CoercesValue(y)
    THEN FloatLess(convertToFloat(x).val, convertToFloat(y).val)
    ELSE StrLess(Render(x), Render(y))

\* The values the results have for the ORDER BY field: those of the GROUP BY
\* field of that name, else those of the aggregate named by alias or function.
OrderGroupPositions(queryInfo) ==
    {i \in 1..Len(queryInfo.GroupByFields) : queryInfo.GroupByFields[i] = queryInfo.OrderField}

OrderAggregatePositions(queryInfo) ==
    {j \in 1..Len(queryInfo.AggregateFields) :
        \/ queryInfo.AggregateFields[j].Alias = queryInfo.OrderField
        \/ ToLower(queryInfo.AggregateFields[j].Function) = queryInfo.OrderField}

InValueOrder(values, direction) ==
    \A i, j \in 1..Len(values) :
        i < j => IF direction = "DESC" THEN ~ValueLess(values[i], values[j])
                 ELSE ~ValueLess(values[j], values[i])

\* C16: with ORDER BY f the sorted results are in the order of their values
\* of f, ascending unless DESC is asked, f being a GROUP BY field (numeric or
\* not) or an aggregate named by its alias or function.
C16_SortedByOrderField ==
    (engine.stage = "sorted" /\ engine.info.OrderField # "") =>
        /\ \A i \in OrderGroupPositions(engine.info) :
               InValueOrder([k \in 1..Len(engine.sorted) |-> engine.sorted[k].GroupValues[i]],
                            engine.info.OrderDirection)
        /\ OrderGroupPositions(engine.info) = {} =>
               \A j \in OrderAggregatePositions(engine.info) :
                   InValueOrder([k \in 1..Len(engine.sorted) |->
                                    engine.sorted[k].AggregateValues[j]],
                                engine.info.OrderDirection)


\* The first of the clauses ORDER BY, LIMIT and GROUP BY of a query, the end
\* of the query when it has none.
TrailingClauses(queryText) ==
    MinOf(({Index(ToLower(queryText), kw) :
               kw \in {" order by ", " limit ", " group by "}} \ {-1})
          \cup {Len(queryText)})

\* The query with the condition inside its WHERE clause, before the clauses
\* that follow.
WithCondition(queryText, condition) ==
    Slice(queryText, 0, TrailingClauses(queryText))
        \o (IF Contains(ToLower(queryText), " where ") THEN " and " ELSE " where ")
        \o condition
        \o Slice(queryText, TrailingClauses(queryText), Len(queryText))

\* "<timeField> >= <from> and <timeField> <= <to>"
RangeCondition(timeField, fromText, toText) ==
    timeField \o " >= " \o fromText \o " and " \o timeField \o " <= " \o toText

Quoted(s) == "'" \o s \o "'"

\* C17: addTimeRangeFilter returns the query with the range condition (its
\* bounds written as the quoted RFC3339 timestamps of the tests, or as Unix
\* milliseconds) inside the WHERE clause, after the existing conditions or as
\* a new WHERE clause, before any ORDER BY, LIMIT or GROUP BY clause.
C17_FilterInsideWhereClause ==
    (rewrite.fn = "addTimeRangeFilter" /\ rewrite.returned) =>
        rewrite.out \in
            {WithCondition(rewrite.query,
                 RangeCondition(rewrite.timeField,
                                Quoted(FormatRFC3339(rewrite.from)),
                                Quoted(FormatRFC3339(rewrite.to)))),
             WithCondition(rewrite.query,
                 RangeCondition(rewrite.timeField,
                                UnixMilli(rewrite.from), UnixMilli(rewrite.to)))}

\* C18: replaceGrafanaVariables returns the query with every $__from replaced
\* by the quoted RFC3339 timestamp of the start of the range and every $__to
\* by that of its end, the rest unchanged; a query without variables comes
\* back unchanged and the result holds no variable.
C18_VariablesBecomeQuotedTimestamps ==
    (rewrite.fn = "replaceGrafanaVariables" /\ rewrite.returned) =>
        /\ rewrite.out =
               ReplaceAll(ReplaceAll(rewrite.query, "$__from",
                                     Quoted(FormatRFC3339(rewrite.from))),
                          "$__to", Quoted(FormatRFC3339(rewrite.to)))
        /\ ~ReferencesTimeVariable(rewrite.query) => rewrite.out = rewrite.query
        /\ ~ReferencesTimeVariable(rewrite.out)


\* The settings and the service account let newFirestoreClient go as far as
\* firestore.NewClient.
UsableConfiguration ==
    /\ settings.JSONok
    /\ settings.ProjectId # ""
    /\ health.serviceAccount \in {"", ValidAccount}

\* C19: CheckHealth never ends in a runtime fault; its result is Error when
\* the settings cannot be parsed, the ProjectId is empty, the service account
\* is not valid credentials JSON or listing the collections fails with an
\* error other than the end of the iteration (or no client can be made), and
\* Ok otherwise, also when the store has no collections.
C19_HealthCheckAlwaysAnswers ==
    /\ health.pc # "crashed"
    /\ health.listed = "done" => health.pc = "done" /\ health.status = "OK"
    /\ health.pc = "done" =>
           /\ health.status \in {"OK", "ERROR"}
           /\ health.status = "OK" =>
                  UsableConfiguration /\ health.listed \in {"collection", "done"}
           /\ (~UsableConfiguration \/ health.listed = "error") =>
                  health.status = "ERROR"


\* The index of " where " in a (trimmed) query text, -1 when there is none.
WhereStart(queryText) == Index(ToLower(TrimSpace(queryText)), " where ")

\* The positions of the GROUP BY, ORDER BY and LIMIT keywords that occur
\* after the start of the WHERE clause.
KeywordsAfterWhere(queryText) ==
    {i \in {findGroupByIndex(ToLower(TrimSpace(queryText))),
            Index(ToLower(TrimSpace(queryText)), " order by "),
            findLimitIndex(ToLower(TrimSpace(queryText)))} :
        i > WhereStart(queryText)}

\* The text of the WHERE clause: from behind the keyword to the earliest
\* keyword that follows, else to the end of the query.
WhereText(queryText) ==
    TrimSpace(Slice(TrimSpace(queryText), WhereStart(queryText) + 7,
                    MinOf(KeywordsAfterWhere(queryText)
                              \cup {Len(TrimSpace(queryText))})))

HoldsLaterClause(value) ==
    \/ Contains(ToLower(value), "group by")
    \/ Contains(ToLower(value), "order by")
    \/ Contains(ToLower(value), "limit ")

\* C20: the text of the WHERE clause ends at the earliest of the GROUP BY,
\* ORDER BY and LIMIT keywords that follow it: the filters of the plan are
\* those of that text, and no filter value holds text of a later clause.
C20_WhereEndsAtEarliestKeyword ==
    (parsed.kind = "plan" /\ WhereStart(text) # -1) =>
        /\ parsed.info.AdditionalFilters = FiltersOf(Split(WhereText(text), " AND "))
        /\ \A i \in 1..Len(parsed.info.AdditionalFilters) :
               ~HoldsLaterClause(parsed.info.AdditionalFilters[i].Value)

\* The same query with every clause on one line: each line break replaced by
\* a single space.
OnOneLine(queryText) ==
    ReplaceAll(ReplaceAll(ReplaceAll(ReplaceAll(queryText,
        "\r\n", " "), "\n  ", " "), "\n\t", " "), "\n", " ")

\* The parts of a plan that the WHERE, GROUP BY, ORDER BY and LIMIT clauses
\* decide.
ClauseResults(info) ==
    <<info.GroupByFields, info.Limit, info.AdditionalFilters, info.TimeField,
      info.OrderField, info.OrderDirection>>

\* C21: the parsed GroupByFields and Limit are the same whether the GROUP BY /
\* LIMIT keyword is preceded by a single space, a newline, a carriage return
\* and newline, or a newline followed by two spaces or a tab, and the same
\* holds for WHERE and ORDER BY placed on their own line: the plan of such a
\* text has the clause results of the plan of the same text on one line.
C21_LineBreaksParseAlike ==
    (parsed # NotParsed /\ text \in LineTexts) =>
        /\ parsed.kind = "plan"
        /\ ClauseResults(parsed.info)
               = ClauseResults(parseSQLQueryWithVariables(OnOneLine(text)).info)

\* The comparison operator a WHERE condition uses, "" when it has none.
OperatorOf(condition) ==
    IF Contains(condition, ">=") THEN ">="
    ELSE IF Contains(condition, "<=") THEN "<="
    ELSE IF Contains(condition, "!=") THEN "!="
    ELSE IF Contains(condition, "==") THEN "=="
    ELSE IF Contains(condition, "=") THEN "="
    ELSE IF Contains(condition, ">") THEN ">"
    ELSE IF Contains(condition, "<") THEN "<"
    ELSE ""

\* The trimmed text left of the operator of a condition.
LeftOperand(condition) ==
    TrimSpace(Slice(condition, 0, Index(condition, OperatorOf(condition))))

\* The positions of the conditions that compare with = or ==.
EqualityConditions(conditions) ==
    {k \in 1..Len(conditions) : OperatorOf(conditions[k]) \in {"=", "=="}}

\* Every filter is an EQ filter on the left operand of an = or == condition,
\* and there are no more filters than such conditions.
FiltersFromEqualities(filters, conditions) ==
    /\ \A i \in 1..Len(filters) :
           /\ filters[i].Operator = "=="
           /\ \E k \in EqualityConditions(conditions) :
                  filters[i].Field = LeftOperand(conditions[k])
    /\ Len(filters) <= Cardinality(EqualityConditions(conditions))

\* C22: every FilterInfo the parser produces comes from a WHERE condition
\* whose operator is = or ==, has Operator EQ and Field equal to the trimmed
\* left operand of that operator; a condition that uses any other operator
\* (>=, <=, >, <, !=) and does not reference $__from or $__to produces no
\* filter.
C22_FiltersOnlyFromEqualities ==
    (parsed.kind = "plan" /\ WhereStart(text) # -1) =>
        FiltersFromEqualities(parsed.info.AdditionalFilters,
                              Split(WhereText(text), " AND "))

\* The positions of the tokens that are the keyword LIMIT and have a successor.
LimitPositions(tokens) ==
    {k \in 1..(Len(tokens) - 1) : ToLower(tokens[k]) = "limit"}

\* The first whitespace-delimited token that follows LIMIT.
TokenAfterLimit(queryText) ==
    Fields(queryText)[MinOf(LimitPositions(Fields(queryText))) + 1]

\* The bound a token stands for: its value when it is a non-negative integer,
\* else 0 (unbounded).
BoundOf(token) == IF AllDigits(token) THEN DigitsVal(token, 0) ELSE 0

\* C23: in every plan the parser returns, Limit is a non-negative integer: it
\* equals the first whitespace token after LIMIT when that token is a
\* non-negative integer, and is 0 (unbounded) for any other token, including
\* a negative number.
C23_LimitIsNonNegative ==
    parsed.kind = "plan" =>
        /\ parsed.info.Limit >= 0
        /\ LimitPositions(Fields(text)) # {} =>
               parsed.info.Limit = BoundOf(TokenAfterLimit(text))

AggregateFunctions == {"COUNT", "SUM", "AVG", "MIN", "MAX"}

\* The entries of the SELECT list of a query text.
SelectList(queryText) ==
    Split(Slice(TrimSpace(queryText),
                Index(ToLower(TrimSpace(queryText)), "select ") + 7,
                Index(ToLower(TrimSpace(queryText)), " from ")), ",")

\* The positions of the entries that hold an aggregate function call.
AggregateEntries(entries) ==
    {k \in 1..Len(entries) :
        \E f \in AggregateFunctions : Contains(ToUpper(entries[k]), f \o "(")}

\* C24: every AggregateInfo in a parsed plan has Function in {COUNT, SUM, AVG,
\* MIN, MAX}: for every SELECT field classified as an aggregate because it
\* contains COUNT(, SUM(, AVG(, MIN( or MAX( case-insensitively, also when
\* that text is not at the start of the field, Function is the matched
\* function name and is never empty.
C24_FunctionIsMatchedName ==
    (parsed.kind = "plan" /\ text \in AggregateTexts \cup WellFormedTexts) =>
        /\ Len(parsed.info.AggregateFields)
               = Cardinality(AggregateEntries(SelectList(text)))
        /\ \A i \in 1..Len(parsed.info.AggregateFields) :
               /\ parsed.info.AggregateFields[i].Function \in AggregateFunctions
               /\ \E k \in AggregateEntries(SelectList(text)) :
                      Contains(ToUpper(SelectList(text)[k]),
                               parsed.info.AggregateFields[i].Function \o "(")

\* The parts of a dotted path.
PathParts(fieldPath) == Split(fieldPath, ".")

\* The path of the first k parts.
PathPrefix(fieldPath, k) == Join(SubSeq(PathParts(fieldPath), 1, k), ".")

\* The path without its last part, and the last part.
ParentPath(fieldPath) == PathPrefix(fieldPath, Len(PathParts(fieldPath)) - 1)
LastPart(fieldPath) == PathParts(fieldPath)[Len(PathParts(fieldPath))]

\* Some value on the way to the last part is missing or is no mapping.
BrokenPath(doc, fieldPath) ==
    \E k \in 1..(Len(PathParts(fieldPath)) - 1) :
        getNestedFieldValue(doc, PathPrefix(fieldPath, k)).t # "map"

\* C25: for every document D and dotted path a.b.c, getNestedFieldValue(D,
\* "a.b.c") equals getNestedFieldValue(M, "c") where M = getNestedFieldValue(D,
\* "a.b") when M is a mapping, and is nil when any intermediate value is
\* missing or is not a mapping.
C25_PathsCompose ==
    (lookup.returned /\ Contains(lookup.path, ".")) =>
        /\ getNestedFieldValue(lookup.doc, ParentPath(lookup.path)).t = "map" =>
               lookup.value
                   = getNestedFieldValue(
                         getNestedFieldValue(lookup.doc, ParentPath(lookup.path)).m,
                         LastPart(lookup.path))
        /\ BrokenPath(lookup.doc, lookup.path) => lookup.value = Nil

\* A path of three parts resolved through two mappings to a value.
C25_Witness ==
    /\ lookup.returned
    /\ lookup.path = "a.b.c"
    /\ getNestedFieldValue(lookup.doc, "a.b").t = "map"
    /\ lookup.value = Int64Val(7)

\* The values of the GroupByFields of a document.
GroupFieldValues(docData) ==
    [i \in 1..Len(engine.info.GroupByFields) |->
        getNestedFieldValue(docData, engine.info.GroupByFields[i])]

\* The pairs (group, position in the group) of the documents grouped.
GroupMembers ==
    {m \in (1..Len(engine.groups)) \X (1..Len(engine.docs)) :
        m[2] <= Len(engine.groups[m[1]])}

\* C26: two filtered documents are placed in the same Group if and only if
\* they have identical values for every GroupByField, so every member of a
\* group has the group-field values reported in that group's GroupValues, also
\* when values contain the separator character or differ only in type (number
\* 7 and string "7").
C26_GroupsByIdenticalValues ==
    (engine.stage = "aggregated" /\ Len(engine.info.GroupByFields) > 0) =>
        /\ \A m \in GroupMembers :
               GroupFieldValues(engine.groups[m[1]][m[2]])
                   = engine.results[m[1]].GroupValues
        /\ \A m1, m2 \in GroupMembers :
               GroupFieldValues(engine.groups[m1[1]][m1[2]])
                       = GroupFieldValues(engine.groups[m2[1]][m2[2]])
                   => m1[1] = m2[1]

\* The aggregates of a plan that OrderField matches by alias, cleaned alias or
\* lower-cased function name, as positions of the SELECT order.
MatchingAggregates(queryInfo) ==
    {j \in 1..Len(queryInfo.AggregateFields) :
        queryInfo.OrderField \in {queryInfo.AggregateFields[j].Alias,
                                  CleanedAlias(queryInfo.AggregateFields[j]),
                                  ToLower(queryInfo.AggregateFields[j].Function)}}

\* The sort value of a result when the first match wins.
FirstMatchWins(queryInfo, result) ==
    IF MatchingAggregates(queryInfo) # {}
    THEN result.SortValue
             = result.AggregateValues[MinOf(MatchingAggregates(queryInfo))]
    ELSE \/ result.SortValue = FloatZero
         \/ \E i \in 1..Len(queryInfo.GroupByFields) :
                /\ queryInfo.OrderField = queryInfo.GroupByFields[i]
                /\ convertToFloat(result.GroupValues[i]).ok
                /\ result.SortValue = convertToFloat(result.GroupValues[i]).val

\* C27: when OrderField matches more than one candidate of an aggregating
\* plan, the first match wins: each result's SortValue is the value of the
\* first aggregate in SELECT order that matches by alias, cleaned alias or
\* lower-cased function name, and a GroupByField is used only when no
\* aggregate matches.
C27_FirstMatchWins ==
    (engine.stage = "aggregated" /\ engine.info.OrderField # "") =>
        \A g \in 1..Len(engine.results) :
            FirstMatchWins(engine.info, engine.results[g])

\* The positions of the conditions that compare a field with $__from or
\* $__to using >=, <=, > or <.
TimeConditions(conditions) ==
    {k \in 1..Len(conditions) :
        /\ ReferencesTimeVariable(conditions[k])
        /\ OperatorOf(conditions[k]) \in {">=", "<=", ">", "<"}}

\* The field of the first such condition.
FirstTimeField(conditions) ==
    LeftOperand(conditions[MinOf(TimeConditions(conditions))])

\* Documents of a collection with times inside and outside the window.
TimedContent == <<UserA, UserB, UserC>>

\* Every document the store returns for the query has a time, under the
\* field, within the window.
AnswerWithinWindow(storeQuery, field) ==
    \A i \in 1..Len(StoreAnswer(TimedContent, storeQuery)) :
        /\ field \in DOMAIN StoreAnswer(TimedContent, storeQuery)[i]
        /\ StoreAnswer(TimedContent, storeQuery)[i][field].n \in TFrom..TTo

\* C28: whenever a WHERE condition compares a field with $__from or $__to
\* using >=, <=, > or <, with or without spaces around the operator, the
\* plan's TimeField is the field of the first such condition, and the native
\* path then restricts the store query to documents whose TimeField lies in
\* the time window [from, to].
C28_TimeFieldOfFirstTimeCondition ==
    (/\ parsed.kind = "plan"
     /\ WhereStart(text) # -1
     /\ TimeConditions(Split(WhereText(text), " AND ")) # {}) =>
        /\ parsed.info.TimeField = FirstTimeField(Split(WhereText(text), " AND "))
        /\ AnswerWithinWindow(BuildStoreQuery(parsed.info, TFrom, TTo),
                              FirstTimeField(Split(WhereText(text), " AND ")))

\* The documents of a content whose TimeField is a time within the window;
\* all of them when the plan has no TimeField.
WithinWindow(content, queryInfo) ==
    IF queryInfo.TimeField = "" THEN content
    ELSE SelectSeq(content, LAMBDA docData :
             /\ queryInfo.TimeField \in DOMAIN docData
             /\ docData[queryInfo.TimeField].t = "time"
             /\ docData[queryInfo.TimeField].n \in TFrom..TTo)

\* The number of rows of the frame of a response.
RowsOf(response) ==
    IF Len(response.Frames) = 0 \/ Len(response.Frames[1].Fields) = 0 THEN 0
    ELSE Len(response.Frames[1].Fields[1].Values)

\* The smaller of two numbers.
Smaller(x, y) == IF x <= y THEN x ELSE y

\* C29: for a non-aggregating native-path query with equality filters and
\* LIMIT n > 0, the response holds min(n, m) rows, where m is the number of
\* documents of the collection (within the time window) that satisfy all
\* filters: the limit bounds the filtered result, not the documents fetched
\* before manual filtering.
C29_LimitBoundsFilteredResult ==
    (/\ engine.stage = "done"
     /\ engine.queried
     /\ ~IsAggregating(engine.info)
     /\ Len(engine.info.AdditionalFilters) > 0
     /\ engine.info.Limit > 0) =>
        RowsOf(engine.response)
            = Smaller(engine.info.Limit,
                      Len(Matching(WithinWindow(engine.content, engine.info),
                                   engine.info.AdditionalFilters)))

\* The worker is at a send and the channel it sends to has no room.
WorkerBlocked ==
    \/ timed.worker = "sendResult" /\ Len(timed.resultChan) >= ChanCap
    \/ timed.worker = "sendError" /\ Len(timed.errorChan) >= ChanCap

\* What the caller returned is one outcome: a result the worker's call
\* produced, an error of the worker, or the timeout.
OneOutcome ==
    /\ timed.returned.kind \in {"result", "error", "timeout"}
    /\ timed.returned.kind = "result" =>
           timed.executed.kind = "result" /\ timed.returned = timed.executed
    /\ timed.returned.kind = "error" => timed.returned = timed.executed
    /\ timed.returned.kind = "timeout" => timed.ctxDone

\* C30: in executeWithTimeout the worker performs at most one channel send in
\* total and never blocks on it, whether the caller is still waiting or has
\* already returned on deadline expiry, so the worker terminates as soon as
\* the library call returns or panics; the caller returns exactly one outcome,
\* and returns a result only if the worker produced that result.
C30_WorkerSendsOnceAndEnds ==
    /\ [](timed.sends <= 1 /\ ~WorkerBlocked)
    /\ [](timed.caller = "returned" => OneOutcome)
    /\ [](timed.caller # "returned" => timed.returned = NoOutcome)
    /\ (timed.worker \in {"recovering", "sendResult", "sendError"})
           ~> (timed.worker = "done")

\* The caller has returned the timeout and the worker has sent its result all
\* the same and has ended: the result stays in the channel.
C30_Witness ==
    /\ timed.caller = "returned"
    /\ timed.returned.kind = "timeout"
    /\ timed.worker = "done"
    /\ timed.sends = 1
    /\ Len(timed.resultChan) = 1

====
